---- MODULE Spec2Model ----
(***************************************************************************)
(* Verification model of the catalystwan configuration-migration core:     *)
(*   - UcVoiceFeatureProfileBuilder (api/builders/feature_profiles/        *)
(*     uc_voice.py): adding parcels, build order, association resolution.  *)
(*   - transform (workflows/config_migration.py): feature profiles and     *)
(*     config groups synthesised from device templates.                    *)
(*   - DeviceTemplateWithInfo.get_flattened_general_templates              *)
(*     (models/configuration/config_migration.py).                         *)
(*   - ServiceParcelPusher.push (utils/config_migration/creators/strategy/ *)
(*     parcels.py): lan/vpn parcels first, parcels handed to the builder.  *)
(*   - push_ux2_config and rollback_ux2_config with UX2ConfigRollback:     *)
(*     creation order on the target and deletion order of the rollback.    *)
(***************************************************************************)
EXTENDS Integers, Sequences, FiniteSets, TLC

VARIABLES
    \* ---- UcVoiceFeatureProfileBuilder ----
    profile,                    \* self._profile ("unset" until add_profile_name_and_description)
    independent_parcels,        \* self._independent_parcels
    translation_profiles,       \* self._translation_profiles
    parcels_with_associations,  \* self._parcels_with_associations
    pushed_associable_parcels,  \* self._pushed_associable_parcels : name -> UUID
    build_report,               \* self.build_report
    pc,                         \* position of build(): adding, loop labels, done, raised
    idx,                        \* index of the loop of build() that is running
    part,                       \* step of _create_translation_profile: called, calling, tpp
    inflight,                   \* TRUE while a create_parcel request awaits its response
    nextId,                     \* identifiers handed out by the remote system
    calls,                      \* requests received by the remote create_parcel endpoint
    added_associations,         \* associations of the parcels as they were when added
    lastOp,                     \* last builder method called and how it ended
    \* ---- transform ----
    ux1,                        \* UX1Config given to transform
    ux1_given,                  \* that UX1Config as it was when it was given
    ux2,                        \* UX2Config under construction
    tpc,                        \* position of transform()
    subtemplates_mapping,       \* transform(): template UUID -> set of sub-template UUIDs
    flattened,                  \* transform(): `templates` of each device template processed
    dti,                        \* index of the device template being processed
    fti,                        \* index of the feature template being processed
    pli,                        \* index of the policy list being processed
    nextUuid,                   \* number of uuid4() values handed out so far
    log,                        \* logger.warning records written by transform
    returned,                   \* the UX2Config of every call of transform that returned
    \* ---- ServiceParcelPusher.push ----
    parcels,                    \* the list `parcels` given to push
    parcels_given,              \* that list as it was when it was given
    builder_calls,              \* calls of methods of self.builder, in order
    ppc,                        \* position of push()
    ppi,                        \* index of the loop of push()
    \* ---- UX2ConfigPusher.push and UX2ConfigReverter.rollback ----
    config,                     \* the UX2Config given to push_ux2_config
    target,                     \* creations and deletions on the target system, in order
    rollback,                   \* the UX2ConfigRollback
    profile_ids,                \* origin of a feature profile -> its identifier on the target
    cpc,                        \* position of push_ux2_config / rollback_ux2_config
    cgi,                        \* index of the config group being pushed
    rbi,                        \* number of deletions rollback has attempted
    status,                     \* the result of rollback so far
    deletion_failed,            \* a deletion of this rollback has failed
    push_result,                \* what push_ux2_config gave its caller
    nextRemoteId,               \* identifiers handed out by the target system
    \* ---- retry (request.py) ----
    retries,                    \* the argument `retries` of the wrapped function
    catch,                      \* the exception types given to retry()
    rpc,                        \* position of the decorator
    loop_i,                     \* iterations of `for _ in range(retries)` completed
    invocations,                \* the outcome of every invocation of the function, in order
    outcome,                    \* what the decorator returned or raised
    \* ---- as_num_ranges_list, as_num_list (policy_definitions.py) ----
    tokens,                     \* the numbers and ranges the port string was written from
    port_str,                   \* the port string `p`, a sequence of characters
    ports_list,                 \* the argument of as_num_list
    num_list,                   \* the list returned
    fpc,                        \* the function that was called
    \* ---- UX2ConfigPushRapport.set_success_rate ----
    config_groups,              \* the ConfigGroupRapports of the rapport
    success_rate_message,       \* its success_rate_message
    spc,                        \* position of set_success_rate
    \* ---- the policy-definition converters ipv4acl and route ----
    in_,                        \* the policy definition given to the converter
    out,                        \* the sequences of the parcel `out`
    protocol,                   \* route: the local variable `protocol`
    seq_i,                      \* route: index of the sequence being converted
    dpc                         \* position of the converter

bvars == <<profile, independent_parcels, translation_profiles, parcels_with_associations,
           pushed_associable_parcels, build_report, pc, idx, part, inflight, nextId, calls,
           added_associations, lastOp>>
tvars == <<ux1, ux1_given, ux2, tpc, subtemplates_mapping, flattened, dti, fti, pli, nextUuid, log, returned>>
pvars == <<parcels, parcels_given, builder_calls, ppc, ppi>>
cvars == <<config, target, rollback, profile_ids, cpc, cgi, rbi, status, deletion_failed,
           push_result, nextRemoteId>>
rvars == <<retries, catch, rpc, loop_i, invocations, outcome>>
nvars == <<tokens, port_str, ports_list, num_list, fpc>>
svars == <<config_groups, success_rate_message, spc>>
dvars == <<in_, out, protocol, seq_i, dpc>>
uvars == <<rvars, nvars, svars, dvars>>
vars == <<bvars, tvars, pvars, cvars, uvars>>

(***************************************************************************)
(* Bounds                                                                  *)
(***************************************************************************)
\* number of add_* calls the model lets a caller make before build()
MaxParcels == 3
\* number of translation profiles among them
MaxTranslationProfiles == 1
\* device templates of a UX1Config, and general templates (nodes of their trees) in all
MaxDeviceTemplates == 2
MaxGeneralTemplates == 2
\* depth of a general-template tree
MaxDepth == 2
\* policy lists of a UX1Config
MaxPolicyLists == 3
\* calls of transform on one UX1Config
MaxRuns == 2
\* general templates of the device template given to get_flattened_general_templates,
\* and depth of their trees
MaxFlattenTemplates == 3
MaxFlattenDepth == 3
\* parcels of the list given to ServiceParcelPusher.push
MaxServiceParcels == 3
\* config groups of the UX2Config given to push_ux2_config
MaxConfigGroups == 2
\* retry: the largest `retries`
MaxRetries == 3
\* tokens of a port string, items of a list of ports
MaxTokens == 2
\* config groups of a push rapport, feature profiles of a config group
MaxRapportGroups == 2
MaxRapportProfiles == 2
\* match entries of an ACL policy, sequences of a route policy
MaxAclEntries == 2
MaxRouteSequences == 4

(***************************************************************************)
(* Python values held by a reference: None, a str, a UUID object.  A str   *)
(* is either text that UUID() rejects or the textual form of a UUID.       *)
(***************************************************************************)
PyNone == [k |-> "none", text |-> "", of |-> 0]
Text(t) == [k |-> "text", text |-> t, of |-> 0]
UuidText(i) == [k |-> "uuidtext", text |-> "", of |-> i]
PyUUID(i) == [k |-> "uuid", text |-> "", of |-> i]

\* str(uuid)
StrOfUUID(u) == UuidText(u.of)

\* An identifier that exists on the remote system before the build.
ExternalUUID == PyUUID(0)

\* Parcel names used by the callers of the builder; the second one is a
\* name that happens to be formatted as a UUID.
ParcelNames == {Text("MediaProfile"), StrOfUUID(ExternalUUID)}
UnknownName == Text("Missing")

is_uuid_objects_only(v) == v.k \in {"uuid", "none"}

\* is_uuid: a UUID object or None is accepted, a str is accepted iff UUID(str) parses.
is_uuid(v) == v.k \in {"uuid", "none", "uuidtext"}

(***************************************************************************)
(* Parcels                                                                 *)
(***************************************************************************)
ASSOCIABLE_PARCELS == {"media-profile", "server-group", "srst", "translation-profile",
                       "translation-rule", "trunk-group", "voice-global", "voice-tenant"}

ASSOCIATON_FIELDS == {"media_profile", "server_group", "translation_profile",
                      "trunk_group", "voice_tenant", "supervisory_disconnect"}

\* Fields of an association model that the model enumerates: one recognised
\* reference field and one field outside ASSOCIATON_FIELDS.
ModelFields == {"media_profile", "port_range"}

as_default_none == [opt |-> "default", value |-> PyNone]
as_global(v) == [opt |-> "global", value |-> v]

\* attribute of an association model: unset (not in model_fields_set, holds its
\* default None), set to something that is not a RefIdItem, or a RefIdItem.
AttrUnset == [a |-> "unset", ref_id |-> as_default_none]
AttrOther == [a |-> "other", ref_id |-> as_default_none]
RefIdItem(r) == [a |-> "ref", ref_id |-> r]

RefValues == {as_default_none, as_global(ExternalUUID), as_global(UnknownName)}
                 \cup {as_global(n) : n \in ParcelNames}

\* port_range is set to a Variable, as in the integration tests
AssociationModels ==
    {[f \in ModelFields |-> IF f = "media_profile" THEN m ELSE AttrOther] :
        m \in {AttrUnset, AttrOther} \cup {RefIdItem(r) : r \in RefValues}}

\* pwa.association: None / empty is modelled by the empty list
Associations == {<<>>} \cup {<<m>> : m \in AssociationModels}

IndependentParcelKinds == {"media-profile", "call-routing"}
IndependentParcels == [parcel_name : ParcelNames, type : IndependentParcelKinds]
ParcelsWithAssociations == [parcel_name : {Text("Ai")}, type : {"analog-interface"},
                            association : Associations]

NoRule == [present |-> FALSE, parcel_name |-> Text(""), type |-> "translation-rule"]
Rule(n) == [present |-> TRUE, parcel_name |-> Text(n), type |-> "translation-rule"]
NoRefs == [called |-> PyNone, calling |-> PyNone]
TranslationProfileParcel(n) == [parcel_name |-> n, type |-> "translation-profile", refs |-> NoRefs]

NoReport == [built |-> FALSE, profile_uuid |-> 0, created |-> <<>>, failed |-> <<>>]

\* the empty dict
EmptyDict == [n \in {} |-> PyUUID(0)]

\* no call of ServiceParcelPusher.push is under way
PusherIdle ==
    /\ parcels = <<>> /\ parcels_given = <<>> /\ builder_calls = <<>>
    /\ ppc = "idle" /\ ppi = 0

\* no push or rollback of a UX2Config is under way
ConfigPushIdle ==
    /\ config = <<>> /\ target = <<>>
    /\ rollback = [config_group_ids |-> <<>>, feature_profile_ids |-> <<>>]
    /\ profile_ids = <<>> /\ cpc = "idle" /\ cgi = 0 /\ rbi = 0 /\ status = TRUE
    /\ deletion_failed = FALSE /\ push_result = [k |-> "pending"]
    /\ nextRemoteId = 0

\* nothing else is under way
Pending == [k |-> "pending", v |-> "none"]

\* neither as_num_ranges_list nor as_num_list is called
NumListIdle == tokens = <<>> /\ port_str = <<>> /\ ports_list = <<>> /\ num_list = <<>> /\ fpc = "idle"

\* no rapport is in use
RapportIdle == config_groups = <<>> /\ success_rate_message = <<>> /\ spc = "idle"

\* a local variable that was not assigned yet
Unbound == [k |-> "unbound", text |-> "", of |-> 0]
\* no policy definition is being converted
ConverterIdle ==
    /\ in_ = <<>> /\ out = <<>> /\ protocol = Unbound /\ seq_i = 0 /\ dpc = "idle"

UtilIdle ==
    /\ retries = 0 /\ catch = {} /\ rpc = "idle" /\ loop_i = 0 /\ invocations = <<>>
    /\ outcome = Pending
    /\ NumListIdle /\ RapportIdle /\ ConverterIdle

InitBuilder ==
    /\ PusherIdle /\ ConfigPushIdle /\ UtilIdle
    /\ profile = "unset"
    /\ independent_parcels = <<>>
    /\ translation_profiles = <<>>
    /\ parcels_with_associations = <<>>
    /\ pushed_associable_parcels = EmptyDict
    /\ build_report = NoReport
    /\ pc = "adding"
    /\ idx = 0
    /\ part = "none"
    /\ inflight = FALSE
    /\ nextId = 1
    /\ calls = <<>>
    /\ added_associations = <<>>
    /\ lastOp = [op |-> "__init__", raised |-> "none", args |-> <<>>]
    /\ ux1 = <<>> /\ ux2 = <<>> /\ tpc = "idle" /\ subtemplates_mapping = <<>>
    /\ flattened = <<>> /\ dti = 0 /\ fti = 0 /\ pli = 0 /\ nextUuid = 0
    /\ log = <<>> /\ returned = <<>>
    /\ ux1_given = ux1

Added == Len(independent_parcels) + Len(translation_profiles) + Len(parcels_with_associations)

(***************************************************************************)
(* add_* methods                                                           *)
(***************************************************************************)
add_profile_name_and_description ==
    /\ UNCHANGED <<tvars, pvars, cvars, uvars>>
    /\ pc = "adding"
    /\ profile' = "FeatureProfileBuilderUcVoice"
    /\ lastOp' = [op |-> "add_profile_name_and_description", raised |-> "none", args |-> <<>>]
    /\ UNCHANGED <<independent_parcels, translation_profiles, parcels_with_associations,
                   pushed_associable_parcels, build_report, pc, idx, part, inflight, nextId,
                   calls, added_associations>>

add_independent_parcel(parcel) ==
    /\ UNCHANGED <<tvars, pvars, cvars, uvars>>
    /\ pc = "adding"
    /\ Added < MaxParcels
    /\ independent_parcels' = Append(independent_parcels, parcel)
    /\ lastOp' = [op |-> "add_independent_parcel", raised |-> "none", args |-> <<>>]
    /\ UNCHANGED <<profile, translation_profiles, parcels_with_associations,
                   pushed_associable_parcels, build_report, pc, idx, part, inflight, nextId,
                   calls, added_associations>>

\* the guard of add_translation_profile: "not calling and not called"
no_rule_calling_only(calling, called) == ~calling.present /\ called.present

no_rule(calling, called) == ~calling.present /\ ~called.present

add_translation_profile(tpp, calling, called) ==
    /\ UNCHANGED <<tvars, pvars, cvars, uvars>>
    /\ pc = "adding"
    /\ IF no_rule(calling, called)
       THEN /\ lastOp' = [op |-> "add_translation_profile", raised |-> "ValueError",
                         args |-> <<calling.present, called.present>>]
            /\ UNCHANGED translation_profiles
       ELSE /\ Added < MaxParcels
            /\ Len(translation_profiles) < MaxTranslationProfiles
            /\ translation_profiles' =
                   Append(translation_profiles, [tpp |-> tpp, calling |-> calling, called |-> called])
            /\ lastOp' = [op |-> "add_translation_profile", raised |-> "none",
                         args |-> <<calling.present, called.present>>]
    /\ UNCHANGED <<profile, independent_parcels, parcels_with_associations,
                   pushed_associable_parcels, build_report, pc, idx, part, inflight, nextId,
                   calls, added_associations>>

add_parcel_with_associations(parcel) ==
    /\ UNCHANGED <<tvars, pvars, cvars, uvars>>
    /\ pc = "adding"
    /\ Added < MaxParcels
    /\ parcels_with_associations' = Append(parcels_with_associations, parcel)
    /\ added_associations' = Append(added_associations, parcel.association)
    /\ lastOp' = [op |-> "add_parcel_with_associations", raised |-> "none", args |-> <<>>]
    /\ UNCHANGED <<profile, independent_parcels, translation_profiles,
                   pushed_associable_parcels, build_report, pc, idx, part, inflight, nextId, calls>>

(***************************************************************************)
(* build()                                                                 *)
(***************************************************************************)
\* dict[key] = value
DictSet(d, key, value) == [n \in DOMAIN d \cup {key} |-> IF n = key THEN value ELSE d[n]]

\* `for x in list`: the loop body runs for index i
loop_skips_last(list, i) == i < Len(list)

loop_has_item(list, i) == i <= Len(list)

\* build(), lines 172-190: the three loops in the order they are written
next_loop_associations_first(loop) ==
    CASE loop = "independent" -> "associations"
      [] loop = "associations" -> "translation"
      [] loop = "translation" -> "return"

next_loop(loop) ==
    CASE loop = "independent" -> "translation"
      [] loop = "translation" -> "associations"
      [] loop = "associations" -> "return"

\* _create_translation_profile, lines 217-223: called rule, calling rule, profile
next_part_profile_first(p) ==
    CASE p = "called" -> "tpp"
      [] p = "calling" -> "end"
      [] p = "tpp" -> "calling"

next_part(p) ==
    CASE p = "called" -> "calling"
      [] p = "calling" -> "tpp"
      [] p = "tpp" -> "end"

\* The statement of build() that runs next, from loop `loop` at index i (and,
\* inside _create_translation_profile, at step p): loops whose list is
\* exhausted and rule steps whose rule is None are passed over.
RECURSIVE Position(_, _, _)
Position(loop, i, p) ==
    CASE loop = "independent" ->
             IF loop_has_item(independent_parcels, i)
             THEN [pc |-> "independent", idx |-> i, part |-> "none"]
             ELSE Position(next_loop(loop), 1, "called")
      [] loop = "translation" ->
             IF ~loop_has_item(translation_profiles, i) THEN Position(next_loop(loop), 1, "called")
             ELSE IF p = "end" THEN Position(loop, i + 1, "called")
             ELSE IF p \in {"called", "calling"} /\ ~translation_profiles[i][p].present
                  THEN Position(loop, i, next_part(p))
             ELSE [pc |-> "translation", idx |-> i, part |-> p]
      [] loop = "associations" ->
             IF loop_has_item(parcels_with_associations, i)
             THEN [pc |-> "associations", idx |-> i, part |-> "none"]
             ELSE Position(next_loop(loop), 1, "called")
      [] loop = "return" -> [pc |-> "done", idx |-> 0, part |-> "none"]

Goto(pos) ==
    /\ pc' = pos.pc
    /\ idx' = pos.idx
    /\ part' = pos.part

\* a request as the remote create_parcel endpoint sees it
Request(slot, parcel, refs, association) ==
    [slot |-> slot, parcel_name |-> parcel.parcel_name, type |-> parcel.type,
     refs |-> refs, association |-> association, result |-> "inflight", id |-> 0]

\* handle_build_report: the outcome of _create_parcel goes to the build report
handle_build_report(report, parcel, ok, uuid) ==
    IF ok
    THEN [report EXCEPT !.created = Append(@, [parcel_name |-> parcel.parcel_name, uuid |-> uuid])]
    ELSE [report EXCEPT !.failed = Append(@, [parcel_name |-> parcel.parcel_name,
                                               parcel_type |-> parcel.type,
                                               error_info |-> "ManagerHTTPError"])]

\* the response to the request in flight: its result, the report, the next identifier
Response(parcel, ok) ==
    /\ inflight
    /\ inflight' = FALSE
    /\ calls' = [calls EXCEPT ![Len(calls)].result = IF ok THEN "created" ELSE "failed",
                              ![Len(calls)].id = IF ok THEN nextId ELSE 0]
    /\ build_report' = handle_build_report(build_report, parcel, ok, PyUUID(nextId))
    /\ nextId' = IF ok THEN nextId + 1 ELSE nextId

\* build(), lines 169-170: the feature profile is created; a failure of that
\* call, or a missing self._profile, propagates out of build()
build_start(ok) ==
    /\ UNCHANGED <<tvars, pvars, cvars, uvars>>
    /\ pc = "adding"
    /\ lastOp' = [op |-> "build", raised |-> IF profile = "unset" THEN "AttributeError"
                                             ELSE IF ok THEN "none" ELSE "ManagerHTTPError",
                 args |-> <<>>]
    /\ IF profile # "unset" /\ ok
       THEN /\ build_report' = [built |-> TRUE, profile_uuid |-> nextId, created |-> <<>>, failed |-> <<>>]
            /\ nextId' = nextId + 1
            /\ Goto(Position("independent", 1, "called"))
       ELSE /\ pc' = "raised"
            /\ UNCHANGED <<build_report, nextId, idx, part>>
    /\ UNCHANGED <<profile, independent_parcels, translation_profiles, parcels_with_associations,
                   pushed_associable_parcels, inflight, calls, added_associations>>

\* build(), lines 173-176: one independent parcel is sent for creation
submit_independent ==
    /\ UNCHANGED <<tvars, pvars, cvars, uvars>>
    /\ pc = "independent" /\ ~inflight
    /\ calls' = Append(calls, Request(<<"independent", idx, "parcel">>,
                                      independent_parcels[idx], NoRefs, <<>>))
    /\ inflight' = TRUE
    /\ UNCHANGED <<profile, independent_parcels, translation_profiles, parcels_with_associations,
                   pushed_associable_parcels, build_report, pc, idx, part, nextId,
                   added_associations, lastOp>>

\* build(), lines 175-176 and 181-182: `if parcel_uuid`, the identifier goes
\* into the map only when the creation returned one
record_pushed_always(d, ok, parcel_name, parcel_uuid) == DictSet(d, parcel_name, parcel_uuid)

record_pushed(d, ok, parcel_name, parcel_uuid) ==
    IF ok THEN DictSet(d, parcel_name, parcel_uuid) ELSE d

\* a failed creation is tried again
respond_independent_retry(ok) ==
    /\ UNCHANGED <<tvars, pvars, cvars, uvars>>
    /\ pc = "independent"
    /\ Response(independent_parcels[idx], ok)
    /\ pushed_associable_parcels' =
           IF independent_parcels[idx].type \in ASSOCIABLE_PARCELS
           THEN record_pushed(pushed_associable_parcels, ok,
                              independent_parcels[idx].parcel_name, PyUUID(nextId))
           ELSE pushed_associable_parcels
    /\ Goto(Position("independent", IF ok THEN idx + 1 ELSE idx, "called"))
    /\ UNCHANGED <<profile, independent_parcels, translation_profiles, parcels_with_associations,
                   added_associations, lastOp>>

respond_independent(ok) ==
    /\ UNCHANGED <<tvars, pvars, cvars, uvars>>
    /\ pc = "independent"
    /\ Response(independent_parcels[idx], ok)
    /\ pushed_associable_parcels' =
           IF independent_parcels[idx].type \in ASSOCIABLE_PARCELS
           THEN record_pushed(pushed_associable_parcels, ok,
                              independent_parcels[idx].parcel_name, PyUUID(nextId))
           ELSE pushed_associable_parcels
    /\ Goto(Position("independent", idx + 1, "called"))
    /\ UNCHANGED <<profile, independent_parcels, translation_profiles, parcels_with_associations,
                   added_associations, lastOp>>

\* TranslationProfileParcel.set_ref_by_call_type
set_ref_by_call_type(tpp, uuid, call_type) == [tpp EXCEPT !.refs[call_type] = uuid]

\* _create_translation_profile, lines 217-222: the called rule, then the calling rule
submit_rule ==
    /\ UNCHANGED <<tvars, pvars, cvars, uvars>>
    /\ pc = "translation" /\ part \in {"called", "calling"} /\ ~inflight
    /\ calls' = Append(calls, Request(<<"translation", idx, part>>,
                                      translation_profiles[idx][part], NoRefs, <<>>))
    /\ inflight' = TRUE
    /\ UNCHANGED <<profile, independent_parcels, translation_profiles, parcels_with_associations,
                   pushed_associable_parcels, build_report, pc, idx, part, nextId,
                   added_associations, lastOp>>

respond_rule(ok) ==
    /\ UNCHANGED <<tvars, pvars, cvars, uvars>>
    /\ pc = "translation" /\ part \in {"called", "calling"}
    /\ Response(translation_profiles[idx][part], ok)
    /\ translation_profiles' =
           IF ok
           THEN [translation_profiles EXCEPT
                    ![idx].tpp = set_ref_by_call_type(@, PyUUID(nextId), part)]
           ELSE translation_profiles
    /\ Goto(Position("translation", idx, next_part(part)))
    /\ UNCHANGED <<profile, independent_parcels, parcels_with_associations,
                   pushed_associable_parcels, added_associations, lastOp>>

\* _create_translation_profile, line 223, and build(), lines 180-182
submit_translation_profile ==
    /\ UNCHANGED <<tvars, pvars, cvars, uvars>>
    /\ pc = "translation" /\ part = "tpp" /\ ~inflight
    /\ calls' = Append(calls, Request(<<"translation", idx, "tpp">>,
                                      translation_profiles[idx].tpp,
                                      translation_profiles[idx].tpp.refs, <<>>))
    /\ inflight' = TRUE
    /\ UNCHANGED <<profile, independent_parcels, translation_profiles, parcels_with_associations,
                   pushed_associable_parcels, build_report, pc, idx, part, nextId,
                   added_associations, lastOp>>

respond_translation_profile(ok) ==
    /\ UNCHANGED <<tvars, pvars, cvars, uvars>>
    /\ pc = "translation" /\ part = "tpp"
    /\ Response(translation_profiles[idx].tpp, ok)
    /\ pushed_associable_parcels' =
           record_pushed(pushed_associable_parcels, ok,
                         translation_profiles[idx].tpp.parcel_name, PyUUID(nextId))
    /\ Goto(Position("translation", idx, next_part(part)))
    /\ UNCHANGED <<profile, independent_parcels, translation_profiles, parcels_with_associations,
                   added_associations, lastOp>>

\* model.model_fields_set
model_fields_set(model) == {f \in DOMAIN model : model[f].a # "unset"}

populate_attr_never_found(attr, resolved) ==
    IF attr.a # "ref" THEN attr
    ELSE IF is_uuid(attr.ref_id.value) \/ attr.ref_id.value = PyNone THEN attr
    ELSE RefIdItem(as_default_none)

populate_attr_keeps_unresolved(attr, resolved) ==
    IF attr.a # "ref" THEN attr
    ELSE IF is_uuid(attr.ref_id.value) \/ attr.ref_id.value = PyNone THEN attr
    ELSE IF attr.ref_id.value \in DOMAIN resolved
         THEN RefIdItem([attr.ref_id EXCEPT !.value = StrOfUUID(resolved[attr.ref_id.value])])
         ELSE attr

\* _populate_association, lines 237-249, for one attribute
populate_attr(attr, resolved) ==
    IF attr.a # "ref" THEN attr
    ELSE IF is_uuid(attr.ref_id.value) \/ attr.ref_id.value = PyNone THEN attr
    ELSE IF attr.ref_id.value \in DOMAIN resolved
         THEN RefIdItem([attr.ref_id EXCEPT !.value = StrOfUUID(resolved[attr.ref_id.value])])
         ELSE RefIdItem(as_default_none)

_populate_association(association, resolved) ==
    [i \in DOMAIN association |->
        [f \in DOMAIN association[i] |->
            IF f \in ASSOCIATON_FIELDS \cap model_fields_set(association[i])
            THEN populate_attr(association[i][f], resolved)
            ELSE association[i][f]]]

\* build(), lines 185-188: the association is resolved, then the parcel is sent
submit_with_associations ==
    /\ UNCHANGED <<tvars, pvars, cvars, uvars>>
    /\ pc = "associations" /\ ~inflight
    /\ LET pwa == parcels_with_associations[idx]
           association == IF pwa.association # <<>>
                          THEN _populate_association(pwa.association, pushed_associable_parcels)
                          ELSE pwa.association
       IN /\ parcels_with_associations' =
                 [parcels_with_associations EXCEPT ![idx].association = association]
          /\ calls' = Append(calls, Request(<<"associations", idx, "parcel">>,
                                            pwa, NoRefs, association))
    /\ inflight' = TRUE
    /\ UNCHANGED <<profile, independent_parcels, translation_profiles,
                   pushed_associable_parcels, build_report, pc, idx, part, nextId,
                   added_associations, lastOp>>

respond_with_associations(ok) ==
    /\ UNCHANGED <<tvars, pvars, cvars, uvars>>
    /\ pc = "associations"
    /\ Response(parcels_with_associations[idx], ok)
    /\ Goto(Position("associations", idx + 1, "called"))
    /\ UNCHANGED <<profile, independent_parcels, translation_profiles, parcels_with_associations,
                   pushed_associable_parcels, added_associations, lastOp>>

(***************************************************************************)
(* The builder: a caller adds parcels, then calls build() once             *)
(***************************************************************************)
NextBuilder ==
    \/ add_profile_name_and_description
    \/ \E parcel \in IndependentParcels : add_independent_parcel(parcel)
    \/ \E n \in ParcelNames, calling \in {NoRule, Rule("2")}, called \in {NoRule, Rule("4")} :
           add_translation_profile(TranslationProfileParcel(n), calling, called)
    \/ \E parcel \in ParcelsWithAssociations : add_parcel_with_associations(parcel)
    \/ \E ok \in BOOLEAN : build_start(ok)
    \/ submit_independent
    \/ \E ok \in BOOLEAN : respond_independent(ok)
    \/ submit_rule
    \/ \E ok \in BOOLEAN : respond_rule(ok)
    \/ submit_translation_profile
    \/ \E ok \in BOOLEAN : respond_translation_profile(ok)
    \/ submit_with_associations
    \/ \E ok \in BOOLEAN : respond_with_associations(ok)

SpecBuilder == InitBuilder /\ [][NextBuilder]_vars

(***************************************************************************)
(* Properties of the builder                                               *)
(***************************************************************************)
\* the creation tasks of the parcels added so far
IndependentSlots == {<<"independent", i, "parcel">> : i \in DOMAIN independent_parcels}
RuleSlots == {s \in {"translation"} \X (DOMAIN translation_profiles) \X {"called", "calling"} :
                  translation_profiles[s[2]][s[3]].present}
ProfileSlots == {<<"translation", i, "tpp">> : i \in DOMAIN translation_profiles}
AssociationSlots == {<<"associations", i, "parcel">> : i \in DOMAIN parcels_with_associations}
AddedSlots == IndependentSlots \cup RuleSlots \cup ProfileSlots \cup AssociationSlots

CallsOf(slot) == {k \in DOMAIN calls : calls[k].slot = slot}

\* pending -> creating -> created | failed, read off the requests and their results
Status(slot) ==
    IF CallsOf(slot) = {} THEN "pending"
    ELSE LET k == CHOOSE c \in CallsOf(slot) : \A d \in CallsOf(slot) : d <= c
         IN IF calls[k].result = "inflight" THEN "creating" ELSE calls[k].result

GroupRank(slot) ==
    CASE slot[1] = "independent" -> 1
      [] slot[1] = "translation" -> 2
      [] slot[1] = "associations" -> 3

BuildReturned == pc = "done"

\* C1: in build, every creation attempt of an independent parcel precedes every
\* attempt of a translation profile (rules and profile parcel), and these
\* precede every attempt of a parcel added with add_parcel_with_associations.
C1_GroupOrder ==
    \A i, j \in DOMAIN calls : i < j => GroupRank(calls[i].slot) <= GroupRank(calls[j].slot)

C1_Witness ==
    /\ BuildReturned
    /\ \A g \in {"independent", "translation", "associations"} :
           \E k \in DOMAIN calls : calls[k].slot[1] = g

\* the parcels whose identifier build() records under their name: independent
\* parcels of an associable type and translation profile parcels
ReferableSlots ==
    {s \in IndependentSlots : independent_parcels[s[2]].type \in ASSOCIABLE_PARCELS} \cup ProfileSlots

ReferableNames ==
    {independent_parcels[s[2]].parcel_name : s \in {r \in ReferableSlots : r[1] = "independent"}}
        \cup {translation_profiles[i].tpp.parcel_name : i \in DOMAIN translation_profiles}

\* the reference fields of the association of the parcel sent by request k, as
\* they were when the parcel was added: <<model index, field>>
NamedRefs(k, kinds) ==
    LET original == added_associations[calls[k].slot[2]]
    IN {r \in (DOMAIN original) \X (ModelFields \cap ASSOCIATON_FIELDS) :
           /\ original[r[1]][r[2]].a = "ref"
           /\ original[r[1]][r[2]].ref_id.value.k \in kinds}

OriginalAttr(k, r) == added_associations[calls[k].slot[2]][r[1]][r[2]]
SentAttr(k, r) == calls[k].association[r[1]][r[2]]

AssociationCalls == {k \in DOMAIN calls : calls[k].slot[1] = "associations"}

AllCreated == \A k \in DOMAIN calls : calls[k].result = "created"

ResolvedToReferenced(kinds) ==
    (BuildReturned /\ AllCreated) =>
        /\ Len(build_report.failed) = 0
        /\ \A k \in AssociationCalls : \A r \in NamedRefs(k, kinds) :
               OriginalAttr(k, r).ref_id.value \in ReferableNames =>
                   \E j \in 1..(k - 1) :
                       /\ calls[j].slot \in ReferableSlots
                       /\ calls[j].parcel_name = OriginalAttr(k, r).ref_id.value
                       /\ SentAttr(k, r) = RefIdItem(as_global(StrOfUUID(PyUUID(calls[j].id))))

\* C2 as stated: when every creation succeeds, a reference by name to an added
\* associable parcel is sent rewritten to the identifier returned by the earlier
\* creation of that parcel, and the report has no failed parcel.
C2_AnyNameResolved == ResolvedToReferenced({"text", "uuidtext"})

\* C2 (amended): the same for every name that does not parse as a UUID.
C2_PlainNameResolved == ResolvedToReferenced({"text"})

C2_Witness ==
    /\ BuildReturned /\ AllCreated
    /\ \E k \in AssociationCalls : \E r \in NamedRefs(k, {"text"}) :
           /\ OriginalAttr(k, r).ref_id.value \in ReferableNames
           /\ SentAttr(k, r).ref_id.value.k = "uuidtext"

\* C3: a reference whose value is a name that is not a key of the map of created
\* associable parcels is sent as the explicit empty value; build does not raise
\* and when it returns every parcel with associations was submitted.
C3_UnresolvedSetToDefault ==
    /\ \A k \in AssociationCalls : \A r \in NamedRefs(k, {"text"}) :
           OriginalAttr(k, r).ref_id.value \notin DOMAIN pushed_associable_parcels =>
               SentAttr(k, r) = RefIdItem(as_default_none)
    /\ build_report.built => pc # "raised"
    /\ BuildReturned => \A s \in AssociationSlots : CallsOf(s) # {}

\* the referenced parcel was sent for creation earlier in this build and failed
C3_Witness ==
    /\ BuildReturned
    /\ \E k \in AssociationCalls : \E r \in NamedRefs(k, {"text"}) :
           /\ \E j \in 1..(k - 1) : /\ calls[j].slot \in ReferableSlots
                                    /\ calls[j].parcel_name = OriginalAttr(k, r).ref_id.value
                                    /\ calls[j].result = "failed"
           /\ OriginalAttr(k, r).ref_id.value \notin DOMAIN pushed_associable_parcels
           /\ SentAttr(k, r) = RefIdItem(as_default_none)
           /\ calls[k].result = "created"

\* C4: a field whose reference already is a UUID object, a UUID-formatted string
\* or None, and a field that holds no reference, is sent as it was added,
\* whatever the map holds.
C4_IdentifiersUnchanged ==
    \A k \in AssociationCalls :
        \A i \in DOMAIN added_associations[calls[k].slot[2]] : \A f \in ModelFields :
            LET attr == added_associations[calls[k].slot[2]][i][f]
            IN (attr.a # "ref" \/ attr.ref_id.value.k \in {"uuid", "uuidtext", "none"}) =>
                   calls[k].association[i][f] = attr

\* the reference is a UUID-formatted string that is also a key of the map
C4_Witness ==
    \E k \in AssociationCalls : \E r \in NamedRefs(k, {"uuidtext"}) :
        /\ OriginalAttr(k, r).ref_id.value \in DOMAIN pushed_associable_parcels
        /\ SentAttr(k, r) = OriginalAttr(k, r)

FailedCalls == SelectSeq(calls, LAMBDA c : c.result = "failed")

\* C5: a failed creation attempt is recorded in the build report as a failed
\* parcel (name, type, reason), every parcel after it is still attempted, and
\* build returns the report instead of raising.
C5_FailureIsolated ==
    /\ Len(build_report.failed) = Len(FailedCalls)
    /\ \A i \in DOMAIN FailedCalls :
           /\ build_report.failed[i].parcel_name = FailedCalls[i].parcel_name
           /\ build_report.failed[i].parcel_type = FailedCalls[i].type
           /\ build_report.failed[i].error_info = "ManagerHTTPError"
    /\ build_report.built => pc # "raised"
    /\ pc \in {"independent", "translation", "associations"} =>
           <<pc, idx, IF pc = "translation" THEN part ELSE "parcel">> \in AddedSlots
    /\ BuildReturned => \A s \in AddedSlots : CallsOf(s) # {}

\* a failure in the first group is followed by attempts in both later groups
C5_Witness ==
    /\ BuildReturned
    /\ Len(build_report.failed) >= 1
    /\ \E k \in DOMAIN calls :
           /\ calls[k].result = "failed" /\ calls[k].slot[1] = "independent"
           /\ \E j \in DOMAIN calls : j > k /\ calls[j].slot[1] = "translation"
           /\ \E j \in DOMAIN calls : j > k /\ calls[j].slot[1] = "associations"

SlotUniverse == {"independent", "translation", "associations"} \X (1..MaxParcels)
                    \X {"parcel", "called", "calling", "tpp"}

StatusSteps == {<<"pending", "pending">>, <<"pending", "creating">>, <<"creating", "creating">>,
                <<"creating", "created">>, <<"creating", "failed">>,
                <<"created", "created">>, <<"failed", "failed">>}

\* C6: during one build every added parcel goes pending -> creating -> created
\* or pending -> creating -> failed: it is submitted at most once, created and
\* failed are terminal, and when build returns none is pending or creating.
C6_Lifecycle ==
    /\ [](/\ \A s \in SlotUniverse : Cardinality(CallsOf(s)) <= 1
          /\ \A s \in SlotUniverse \ AddedSlots : Status(s) = "pending"
          /\ BuildReturned => \A s \in AddedSlots : Status(s) \in {"created", "failed"})
    /\ [][\A s \in SlotUniverse : <<Status(s), Status(s)'>> \in StatusSteps]_vars

C6_Witness ==
    /\ BuildReturned
    /\ \E s \in AddedSlots : Status(s) = "created"
    /\ \E s \in AddedSlots : Status(s) = "failed"

\* C7: the rules of a translation profile are attempted before its profile
\* parcel, which is sent carrying the identifier of every rule that was created;
\* the map of created parcels holds only identifiers of successful creations,
\* under the name of the parcel created.
C7_RulesBeforeProfile ==
    /\ \A k \in DOMAIN calls :
           (calls[k].slot[1] = "translation" /\ calls[k].slot[3] = "tpp") =>
               \A p \in {"called", "calling"} :
                   translation_profiles[calls[k].slot[2]][p].present =>
                       \E j \in 1..(k - 1) :
                           /\ calls[j].slot = <<"translation", calls[k].slot[2], p>>
                           /\ calls[j].result \in {"created", "failed"}
                           /\ calls[j].result = "created" => calls[k].refs[p] = PyUUID(calls[j].id)
                           /\ calls[j].result = "failed" => calls[k].refs[p] = PyNone
    /\ \A n \in DOMAIN pushed_associable_parcels :
           /\ pushed_associable_parcels[n].k = "uuid"
           /\ \E j \in DOMAIN calls : /\ calls[j].result = "created"
                                      /\ calls[j].slot \in ReferableSlots
                                      /\ calls[j].parcel_name = n
                                      /\ calls[j].id = pushed_associable_parcels[n].of

\* one rule created, the other failed, the profile created and recorded
C7_Witness ==
    \E k \in DOMAIN calls :
        /\ calls[k].slot[1] = "translation" /\ calls[k].slot[3] = "tpp"
        /\ calls[k].result = "created"
        /\ calls[k].refs.called.k = "uuid" /\ calls[k].refs.calling = PyNone
        /\ translation_profiles[calls[k].slot[2]].calling.present
        /\ calls[k].parcel_name \in DOMAIN pushed_associable_parcels
        /\ pushed_associable_parcels[calls[k].parcel_name] = PyUUID(calls[k].id)

\* C8: add_translation_profile raises ValueError exactly when neither rule is
\* given, then leaves the list of translation profiles unchanged and no remote
\* creation has been made; with one rule or both the profile is appended.
C8_AddTranslationProfile ==
    [][lastOp'.op = "add_translation_profile" =>
          /\ (lastOp'.raised = "ValueError") <=> (~lastOp'.args[1] /\ ~lastOp'.args[2])
          /\ lastOp'.raised = "ValueError" =>
                 /\ translation_profiles' = translation_profiles
                 /\ calls' = <<>> /\ inflight' = FALSE /\ pc' = "adding"
          /\ lastOp'.raised # "ValueError" =>
                 /\ Len(translation_profiles') = Len(translation_profiles) + 1
                 /\ SubSeq(translation_profiles', 1, Len(translation_profiles)) = translation_profiles
                 /\ translation_profiles'[Len(translation_profiles')].calling.present = lastOp'.args[1]
                 /\ translation_profiles'[Len(translation_profiles')].called.present = lastOp'.args[2]
      ]_vars

\* a profile with only a calling rule was accepted, one with no rule refused
C8_Witness ==
    /\ lastOp.op = "add_translation_profile" /\ lastOp.raised = "ValueError"
    /\ \E i \in DOMAIN translation_profiles :
           translation_profiles[i].calling.present /\ ~translation_profiles[i].called.present

\* the requests before request k that created a referable parcel named n
CreatedAs(n, k) ==
    {j \in 1..(k - 1) : /\ calls[j].slot \in ReferableSlots
                        /\ calls[j].parcel_name = n
                        /\ calls[j].result = "created"}

\* C23: all through build, every entry of the name-to-identifier map is the
\* identifier that a successful creation of a parcel of that name returned in
\* this builder; and every recognised reference field of a submitted parcel
\* with associations holds the empty value, the valid identifier it held when
\* added, or the identifier of an earlier successfully created parcel of the
\* referenced name, never a name and nothing for a creation that failed.
C23_ReferencesAreCreatedIds ==
    /\ \A n \in DOMAIN pushed_associable_parcels :
           \E j \in CreatedAs(n, Len(calls) + 1) : pushed_associable_parcels[n] = PyUUID(calls[j].id)
    /\ \A k \in AssociationCalls : \A r \in NamedRefs(k, {"none", "text", "uuidtext", "uuid"}) :
           LET value == SentAttr(k, r).ref_id.value
               original == OriginalAttr(k, r).ref_id.value
           IN /\ value.k # "text"
              /\ \/ value = PyNone
                 \/ original.k \in {"uuidtext", "uuid"} /\ value = original
                 \/ \E j \in CreatedAs(original, k) : value = StrOfUUID(PyUUID(calls[j].id))
              /\ (original.k = "text" /\ CreatedAs(original, k) = {}) => value = PyNone

\* a reference by name was sent as the identifier of the created parcel of that
\* name, while the creation of another parcel of the same name had failed
C23_Witness ==
    /\ BuildReturned
    /\ \E k \in AssociationCalls : \E r \in NamedRefs(k, {"text"}) :
           /\ \E j \in CreatedAs(OriginalAttr(k, r).ref_id.value, k) :
                  SentAttr(k, r).ref_id.value = StrOfUUID(PyUUID(calls[j].id))
           /\ \E j \in 1..(k - 1) : /\ calls[j].slot \in ReferableSlots
                                    /\ calls[j].parcel_name = OriginalAttr(k, r).ref_id.value
                                    /\ calls[j].result = "failed"

(***************************************************************************)
(* transform (workflows/config_migration.py)                               *)
(***************************************************************************)
CISCO_VPN_SERVICE == "cisco_vpn_service"
CISCO_VPN_TRANSPORT_AND_MANAGEMENT == "cisco_vpn_transport_and_management"

SUPPORTED_TEMPLATE_TYPES ==
    {"cisco_aaa", "cedge_aaa", "aaa", "cisco_banner", "cisco_security", "security",
     "security-vsmart", "security-vedge", "cisco_system", "system-vsmart", "system-vedge",
     "cedge_global", "cisco_logging", "logging", "cisco_omp", "omp-vedge", "omp-vsmart",
     "cisco_ntp", "ntp", "cisco_thousandeyes", "ucse", "dhcp", "cisco_dhcp_server",
     "cisco_vpn", "cisco_vpn_interface_gre", "vpn-vsmart-interface", "vpn-vedge-interface",
     "vpn-vmanage-interface", "cisco_vpn_interface", "cisco_vpn_interface_ipsec",
     "vpn-interface-svi", "cisco_ospf", "switchport", "cisco_wireless_lan", "cisco_multicast",
     "cisco_pim", "cisco_igmp", "cisco_IGMP", "igmp", "pim", "multicast", "cedge_igmp",
     "cedge_multicast", "cedge_pim", "vpn-interface-t1-e1", "vpn-interface-ethpppoe",
     "vpn-interface-pppoe", "vpn-interface-pppoa", "vpn-interface-ipoe"}

FEATURE_PROFILE_SYSTEM ==
    {"cisco_aaa", "cedge_aaa", "aaa", "cisco_banner", "cisco_security", "security",
     "security-vsmart", "security-vedge", "cisco_system", "system-vsmart", "system-vedge",
     "cedge_global", "cisco_logging", "logging", "cisco_omp", "omp-vedge", "omp-vsmart",
     "cisco_ntp", "ntp", "cisco_snmp"}

FEATURE_PROFILE_TRANSPORT ==
    {"dhcp", "cisco_dhcp_server", "dhcp-server", "vpn-interface-t1-e1", "vpn-interface-ethpppoe",
     "vpn-interface-pppoe", "vpn-interface-pppoa", "vpn-interface-ipoe",
     CISCO_VPN_TRANSPORT_AND_MANAGEMENT}

FEATURE_PROFILE_OTHER == {"cisco_thousandeyes", "ucse"}

FEATURE_PROFILE_SERVICE ==
    {"cisco_vpn_interface_gre", "vpn-vsmart-interface", "vpn-vedge-interface",
     "vpn-vmanage-interface", "cisco_vpn_interface", "cisco_vpn_interface_ipsec",
     "vpn-interface-svi", "cisco_ospf", "switchport", "cisco_wireless_lan", "cisco_multicast",
     "cisco_pim", "cisco_igmp", "cisco_IGMP", "igmp", "pim", "multicast", "cedge_igmp",
     "cedge_multicast", "cedge_pim", CISCO_VPN_SERVICE}

\* UUID(str): the UUID object a well-formed identifier string stands for
UUID(str) == PyUUID(str.of)

\* The feature templates that general templates refer to: the identifier of a
\* template fixes its type.  cisco_bfd is in no lookup table; cisco_snmp is in
\* FEATURE_PROFILE_SYSTEM and not in SUPPORTED_TEMPLATE_TYPES; the last
\* cisco_vpn template has no entry in ux1.templates.feature_templates.
TemplateCatalog ==
    <<[template_type |-> "cisco_system", vpn |-> "none", listed |-> TRUE],
      [template_type |-> "cisco_thousandeyes", vpn |-> "none", listed |-> TRUE],
      [template_type |-> "cisco_vpn_interface", vpn |-> "none", listed |-> TRUE],
      [template_type |-> "dhcp", vpn |-> "none", listed |-> TRUE],
      [template_type |-> "cisco_bfd", vpn |-> "none", listed |-> TRUE],
      [template_type |-> "cisco_vpn", vpn |-> CISCO_VPN_SERVICE, listed |-> TRUE],
      [template_type |-> "cisco_vpn", vpn |-> CISCO_VPN_TRANSPORT_AND_MANAGEMENT, listed |-> TRUE],
      [template_type |-> "cisco_snmp", vpn |-> "none", listed |-> TRUE],
      [template_type |-> "cisco_vpn", vpn |-> "none", listed |-> FALSE]>>

GeneralTemplate(c, subTemplates) ==
    [templateId |-> UuidText(c), templateType |-> TemplateCatalog[c].template_type,
     subTemplates |-> subTemplates]

\* the elements of a set of numbers as a list in ascending order
RECURSIVE Ascending(_)
Ascending(S) ==
    IF S = {} THEN <<>>
    ELSE LET least == CHOOSE x \in S : \A y \in S : x <= y
         IN <<least>> \o Ascending(S \ {least})

\* A forest of n general templates is given by the parent of every node (0 for a
\* top-level template); the sub-templates of a node are its children in
\* ascending order.
RECURSIVE Level(_, _)
Level(parent, i) == IF parent[i] = 0 THEN 1 ELSE 1 + Level(parent, parent[i])

Forests(n, d) ==
    {parent \in [1..n -> 0..n] : \A i \in 1..n : parent[i] < i /\ Level(parent, i) <= d}

RECURSIVE GeneralTemplateTree(_, _, _)
GeneralTemplateTree(parent, type, i) ==
    LET children == Ascending({j \in DOMAIN parent : parent[j] = i})
    IN GeneralTemplate(type[i], [k \in DOMAIN children |->
                                    GeneralTemplateTree(parent, type, children[k])])

DeviceTemplateWithInfo(i, general_templates) ==
    [template_id |-> UuidText(50 + i), template_name |-> <<"dt", i>>,
     general_templates |-> general_templates]

\* m device templates over the forest: top-level template i belongs to device
\* template owner[i]
DeviceTemplates(m, parent, type, owner) ==
    [i \in 1..m |->
        LET top == Ascending({j \in DOMAIN owner : owner[j] = i})
        IN DeviceTemplateWithInfo(i, [k \in DOMAIN top |-> GeneralTemplateTree(parent, type, top[k])])]

FeatureTemplates ==
    [c \in {c \in DOMAIN TemplateCatalog : TemplateCatalog[c].listed} |->
        [id |-> UuidText(c), template_type |-> TemplateCatalog[c].template_type,
         vpn |-> TemplateCatalog[c].vpn]]

\* policy lists of the input: the converter of a list may raise PolicyListConversionError
PolicyList(i) == [list_id |-> PyUUID(70 + i), type |-> "prefix", name |-> <<"pl", i>>]

PolicyLists == [i \in 1..MaxPolicyLists |-> PolicyList(i)]

\* a UX1Config
UX1Config(device_templates, policy_lists) ==
    [device_templates |-> device_templates, feature_templates |-> FeatureTemplates,
     policy_lists |-> policy_lists]

\* uuid4(): the n-th identifier generated, unequal to every identifier of the input
uuid4(n) == PyUUID(100 + n)

\* DeviceTemplateWithInfo.get_flattened_general_templates: the list returned
RECURSIVE get_flattened_general_templates(_)
get_flattened_general_templates(general_templates) ==
    IF general_templates = <<>> THEN <<>>
    ELSE LET template == Head(general_templates)
             subtemplates == template.subTemplates
         IN (IF subtemplates # <<>> /\ template.templateType # "cisco_vpn"
             THEN subtemplates \o <<[template EXCEPT !.subTemplates = <<>>]>>
             ELSE <<template>>)
            \o get_flattened_general_templates(Tail(general_templates))

\* resolve_template_type: a cisco_vpn template takes the service or the
\* transport-and-management type of its feature template; it keeps its type when
\* that feature template is not in the list
resolve_template_type(template, feature_templates) ==
    LET found == {k \in DOMAIN feature_templates : feature_templates[k].id = template.templateId}
    IN IF found = {} THEN template
       ELSE LET ft == feature_templates[CHOOSE k \in found : \A j \in found : k <= j]
            IN IF ft.vpn = "none" THEN template ELSE [template EXCEPT !.templateType = ft.vpn]

\* transform, lines 217-218
resolved(template, feature_templates) ==
    IF template.templateType = "cisco_vpn"
    THEN resolve_template_type(template, feature_templates)
    ELSE template

\* DeviceTemplateWithInfo.get_flattened_general_templates, line 48: self.general_templates
\* after the call
general_templates_flattened(general_templates) ==
    [i \in DOMAIN general_templates |->
        LET template == general_templates[i]
        IN IF template.subTemplates # <<>> /\ template.templateType # "cisco_vpn"
           THEN [template EXCEPT !.subTemplates = <<>>]
           ELSE template]

\* DeviceTemplateWithInfo.get_flattened_general_templates and resolve_template_type:
\* the general templates of the device template after both have changed them
general_templates_after(general_templates, feature_templates) ==
    [i \in DOMAIN general_templates |->
        resolved(general_templates_flattened(general_templates)[i], feature_templates)]

\* transform, lines 220-227: the feature profile a template type goes to
category_without_transport(templateType) ==
    IF templateType \in FEATURE_PROFILE_SYSTEM THEN "system"
    ELSE IF templateType \in FEATURE_PROFILE_OTHER THEN "other"
    ELSE IF templateType \in FEATURE_PROFILE_SERVICE THEN "service"
    ELSE "none"

category(templateType) ==
    IF templateType \in FEATURE_PROFILE_SYSTEM THEN "system"
    ELSE IF templateType \in FEATURE_PROFILE_OTHER THEN "other"
    ELSE IF templateType \in FEATURE_PROFILE_SERVICE THEN "service"
    ELSE IF templateType \in FEATURE_PROFILE_TRANSPORT THEN "transport"
    ELSE "none"

ProfileTypes == <<"system", "other", "service", "transport">>

\* transform, lines 230-232: subtemplates_mapping[template_uuid] = set([...])
map_subtemplates_merged(mapping, template_uuid, ids) ==
    DictSet(mapping, template_uuid,
            (IF template_uuid \in DOMAIN mapping THEN mapping[template_uuid] ELSE {}) \cup ids)

map_subtemplates(mapping, template_uuid, ids) == DictSet(mapping, template_uuid, ids)

\* transform, lines 215-232: the loop over `templates`, from index k; acc holds the
\* subelements of the four feature profiles and the sub-template mapping
RECURSIVE bucket_templates(_, _, _)
bucket_templates(templates, k, acc) ==
    IF k > Len(templates) THEN acc
    ELSE LET template == templates[k]
             template_uuid == UUID(template.templateId)
             c == category(template.templateType)
             subelements == [t \in DOMAIN acc.subelements |->
                                IF t = c THEN acc.subelements[t] \cup {template_uuid}
                                ELSE acc.subelements[t]]
             mapping == IF Len(template.subTemplates) > 0
                        THEN map_subtemplates(acc.mapping, template_uuid,
                                              {UUID(template.subTemplates[j].templateId) :
                                                  j \in DOMAIN template.subTemplates})
                        ELSE acc.mapping
         IN bucket_templates(templates, k + 1, [subelements |-> subelements, mapping |-> mapping])

TransformHeader(type, origin, subelements) ==
    [type |-> type, origin |-> origin, subelements |-> subelements]

\* transform, lines 170-213: the feature profile of one category of a device template
TransformedFeatureProfile(dt, type, origin, subelements) ==
    [header |-> TransformHeader(type, origin, subelements),
     feature_profile |-> [name |-> <<dt.template_name, type>>, description |-> type]]

\* transform, line 238
config_group_subelements_without_transport(fp_uuids) == {fp_uuids[i] : i \in 1..3}

config_group_subelements(fp_uuids) == {fp_uuids[i] : i \in DOMAIN fp_uuids}

\* transform, lines 234-246
TransformedConfigGroup(dt, fp_uuids) ==
    [header |-> TransformHeader("config_group", UUID(dt.template_id),
                                config_group_subelements(fp_uuids)),
     config_group |-> [name |-> dt.template_name, solution |-> "sdwan", profiles |-> <<>>]]

EmptyMapping == [u \in {} |-> {}]
EmptyUX2 == [feature_profiles |-> <<>>, config_groups |-> <<>>, profile_parcels |-> <<>>]

\* the loop of transform that runs next, given that loop `loop` is at index i
TransformPosition(loop, i) ==
    IF loop = "device_templates" /\ i <= Len(ux1.device_templates) THEN "device_templates"
    ELSE IF loop \in {"device_templates", "feature_templates"}
            /\ (IF loop = "feature_templates" THEN i ELSE 1) <= Len(ux1.feature_templates)
         THEN "feature_templates"
    ELSE IF (IF loop = "policy_lists" THEN i ELSE 1) <= Len(ux1.policy_lists)
         THEN "policy_lists"
    ELSE "merge_parcels"

\* general templates that device templates share: a cisco_vpn (catalog entry 6)
\* with a cisco_vpn_interface, with a dhcp, without sub-templates and with a
\* cisco_vpn_interface that has a dhcp of its own; a cisco_vpn_interface with a
\* dhcp; a cisco_system with a cisco_vpn_interface that has a dhcp
SharedTemplates ==
    {GeneralTemplate(6, <<GeneralTemplate(3, <<>>)>>),
     GeneralTemplate(6, <<GeneralTemplate(4, <<>>)>>),
     GeneralTemplate(6, <<>>),
     GeneralTemplate(6, <<GeneralTemplate(3, <<GeneralTemplate(4, <<>>)>>)>>),
     GeneralTemplate(3, <<GeneralTemplate(4, <<>>)>>),
     GeneralTemplate(1, <<GeneralTemplate(3, <<GeneralTemplate(4, <<>>)>>)>>)}

\* inputs of transform: device templates of every shape within the bounds; with
\* at most one device template without general templates, policy lists; and
\* device templates that list one of the shared general templates each
InitTransform ==
    /\ PusherIdle /\ ConfigPushIdle /\ UtilIdle
    /\ \/ \E m \in 0..MaxDeviceTemplates, n \in 0..MaxGeneralTemplates :
             \E parent \in Forests(n, MaxDepth) :
                \E type \in [1..n -> DOMAIN TemplateCatalog],
                   owner \in [{i \in 1..n : parent[i] = 0} -> 1..m] :
                      ux1 = UX1Config(DeviceTemplates(m, parent, type, owner), <<>>)
       \/ \E m \in 0..1 :
             ux1 = UX1Config(DeviceTemplates(m, <<>>, <<>>, <<>>), PolicyLists)
       \/ \E m \in 1..MaxDeviceTemplates :
             \E listed \in [1..m -> SharedTemplates] :
                ux1 = UX1Config([i \in 1..m |-> DeviceTemplateWithInfo(i, <<listed[i]>>)], <<>>)
    /\ ux2 = EmptyUX2
    /\ subtemplates_mapping = EmptyMapping
    /\ flattened = <<>>
    /\ tpc = TransformPosition("device_templates", 1)
    /\ dti = 1 /\ fti = 1 /\ pli = 1
    /\ nextUuid = 0
    /\ log = <<>> /\ returned = <<>>
    /\ ux1_given = ux1
    /\ profile = "unset" /\ independent_parcels = <<>> /\ translation_profiles = <<>>
    /\ parcels_with_associations = <<>> /\ pushed_associable_parcels = EmptyDict
    /\ build_report = NoReport /\ pc = "idle" /\ idx = 0 /\ part = "none" /\ inflight = FALSE
    /\ nextId = 1 /\ calls = <<>> /\ added_associations = <<>>
    /\ lastOp = [op |-> "__init__", raised |-> "none", args |-> <<>>]

\* transform, lines 167-252: one device template
transform_device_template ==
    /\ UNCHANGED <<bvars, pvars, cvars, uvars>>
    /\ tpc = "device_templates"
    /\ LET dt == ux1.device_templates[dti]
           templates == get_flattened_general_templates(dt.general_templates)
           resolved_templates == [k \in DOMAIN templates |-> resolved(templates[k], ux1.feature_templates)]
           fp_uuids == [i \in DOMAIN ProfileTypes |-> uuid4(nextUuid + i)]
           acc == bucket_templates(resolved_templates, 1,
                                   [subelements |-> [t \in {ProfileTypes[i] : i \in DOMAIN ProfileTypes} |-> {}],
                                    mapping |-> subtemplates_mapping])
       IN /\ ux1' = [ux1 EXCEPT !.device_templates[dti].general_templates =
                                    general_templates_after(@, ux1.feature_templates)]
          /\ flattened' = Append(flattened, resolved_templates)
          /\ subtemplates_mapping' = acc.mapping
          /\ nextUuid' = nextUuid + Len(ProfileTypes)
          /\ ux2' = [ux2 EXCEPT
                       !.feature_profiles = @ \o
                           [i \in DOMAIN ProfileTypes |->
                               TransformedFeatureProfile(dt, ProfileTypes[i], fp_uuids[i],
                                                         acc.subelements[ProfileTypes[i]])],
                       !.config_groups = Append(@, TransformedConfigGroup(dt, fp_uuids))]
    /\ dti' = dti + 1
    /\ tpc' = TransformPosition("device_templates", dti + 1)
    /\ UNCHANGED <<ux1_given, fti, pli, log, returned>>

\* defaultdict(set).__getitem__: a missing key is inserted with an empty set
defaultdict_get(d, key) == IF key \in DOMAIN d THEN d ELSE DictSet(d, key, {})

\* create_parcel_from_template: the parcel made from a feature template
create_parcel_from_template(ft) == [parcel_type |-> ft.template_type, parcel_name |-> ft.id]

TransformedParcel(type, origin, subelements, parcel) ==
    [header |-> TransformHeader(type, origin, subelements), parcel |-> parcel]

\* transform, lines 254-267: one feature template; the converter returns (ok) or
\* raises, and nothing between lines 254 and 267 catches what it raises: the
\* call of transform ends there and its local ux2 and subtemplates_mapping are lost
transform_feature_template(ok) ==
    /\ UNCHANGED <<bvars, pvars, cvars, uvars>>
    /\ tpc = "feature_templates"
    /\ LET ft == ux1.feature_templates[fti]
           ft_template_uuid == UUID(ft.id)
       IN IF ft.template_type \in SUPPORTED_TEMPLATE_TYPES
          THEN IF ok
               THEN LET parcel == create_parcel_from_template(ft)
                        mapping == defaultdict_get(subtemplates_mapping, ft_template_uuid)
                    IN /\ subtemplates_mapping' = mapping
                       /\ ux2' = [ux2 EXCEPT !.profile_parcels =
                                     Append(@, TransformedParcel(parcel.parcel_type, ft_template_uuid,
                                                                 mapping[ft_template_uuid], parcel))]
                       /\ fti' = fti + 1
                       /\ tpc' = TransformPosition("feature_templates", fti + 1)
               ELSE /\ tpc' = "raised"
                    /\ ux2' = EmptyUX2
                    /\ subtemplates_mapping' = EmptyMapping
                    /\ fti' = 0
          ELSE /\ ok
               /\ fti' = fti + 1
               /\ tpc' = TransformPosition("feature_templates", fti + 1)
               /\ UNCHANGED <<ux2, subtemplates_mapping>>
    /\ UNCHANGED <<ux1, ux1_given, flattened, dti, pli, nextUuid, log, returned>>

\* convert_policy_list: the parcel made from a policy list
convert_policy_list(policy_list) == [parcel_type |-> policy_list.type, parcel_name |-> policy_list.list_id]

\* transform, lines 270-276: where the loop goes after the list at index i; the
\* except clause is in the body of the loop
policy_list_loop_stops(ok, i) ==
    IF ok THEN TransformPosition("policy_lists", i + 1) ELSE "merge_parcels"

policy_list_loop_next(ok, i) == TransformPosition("policy_lists", i + 1)

\* transform, lines 270-276: one policy list; PolicyListConversionError is caught
transform_policy_list(ok) ==
    /\ UNCHANGED <<bvars, pvars, cvars, uvars>>
    /\ tpc = "policy_lists"
    /\ LET policy_list == ux1.policy_lists[pli]
           policy_parcel == convert_policy_list(policy_list)
       IN /\ ux2' = IF ok
                 THEN [ux2 EXCEPT !.profile_parcels =
                          Append(@, TransformedParcel(policy_parcel.parcel_type, policy_list.list_id,
                                                      {}, policy_parcel))]
                 ELSE ux2
          /\ log' = IF ok THEN log
                    ELSE Append(log, [level |-> "warning", type |-> policy_list.type,
                                      id |-> policy_list.list_id, name |-> policy_list.name])
    /\ pli' = pli + 1
    /\ tpc' = policy_list_loop_next(ok, pli)
    /\ UNCHANGED <<ux1, ux1_given, subtemplates_mapping, flattened, dti, fti, nextUuid, returned>>

\* merge_parcels: parcels are merged; feature profiles and config groups are kept
merge_parcels(u) ==
    [feature_profiles |-> u.feature_profiles, config_groups |-> u.config_groups,
     profile_parcels |-> u.profile_parcels]

\* transform, lines 278-279
transform_return ==
    /\ UNCHANGED <<bvars, pvars, cvars, uvars>>
    /\ tpc = "merge_parcels"
    /\ ux2' = merge_parcels(ux2)
    /\ returned' = Append(returned, merge_parcels(ux2))
    /\ tpc' = "done"
    /\ UNCHANGED <<ux1, ux1_given, subtemplates_mapping, flattened, dti, fti, pli, nextUuid, log>>

NextTransform ==
    \/ transform_device_template
    \/ \E ok \in BOOLEAN : transform_feature_template(ok)
    \/ \E ok \in BOOLEAN : transform_policy_list(ok)
    \/ transform_return

SpecTransform == InitTransform /\ [][NextTransform]_vars

(***************************************************************************)
(* Properties of transform                                                 *)
(***************************************************************************)
\* the device templates transform has gone through
ProcessedDeviceTemplates == DOMAIN ux2.config_groups

\* the feature profiles whose origin a config group names as a subelement
ProfilesOf(i) ==
    {k \in DOMAIN ux2.feature_profiles :
        ux2.feature_profiles[k].header.origin \in ux2.config_groups[i].header.subelements}

\* the feature profile of a category among the profiles of device template i
ProfileOfType(i, type) ==
    {k \in ProfilesOf(i) : ux2.feature_profiles[k].header.type = type}

CategoryNames == {ProfileTypes[j] : j \in DOMAIN ProfileTypes}

\* C9: transform makes, for every device template, exactly four feature
\* profiles - one of each of the types system, other, service and transport -
\* and exactly one config group, whose subelements are exactly the origins of
\* those four profiles; the four profiles of a device template without general
\* templates have empty subelement sets.
C9_FourProfilesOneGroup ==
    /\ Len(ux2.feature_profiles) = 4 * Len(ux2.config_groups)
    /\ tpc \in {"feature_templates", "policy_lists", "merge_parcels", "done"}
          => Len(ux2.config_groups) = Len(ux1.device_templates)
    /\ \A i \in ProcessedDeviceTemplates :
          /\ ux2.config_groups[i].header.origin = UUID(ux1.device_templates[i].template_id)
          /\ Cardinality(ProfilesOf(i)) = 4
          /\ \A type \in CategoryNames : Cardinality(ProfileOfType(i, type)) = 1
          /\ ux2.config_groups[i].header.subelements =
                {ux2.feature_profiles[k].header.origin : k \in ProfilesOf(i)}
          /\ Cardinality(ux2.config_groups[i].header.subelements) = 4
          /\ \A j \in ProcessedDeviceTemplates : j # i => ProfilesOf(i) \cap ProfilesOf(j) = {}
          /\ ux1.device_templates[i].general_templates = <<>>
                => \A k \in ProfilesOf(i) : ux2.feature_profiles[k].header.subelements = {}

C9_Witness ==
    /\ tpc = "done"
    /\ Len(ux2.config_groups) = 2
    /\ \E i, j \in ProcessedDeviceTemplates :
          /\ ux1.device_templates[i].general_templates = <<>>
          /\ \E k \in ProfilesOf(j) : ux2.feature_profiles[k].header.subelements # {}

\* the lookup tables of transform that hold a template type
TablesOf(templateType) ==
    {type \in CategoryNames :
        \/ type = "system" /\ templateType \in FEATURE_PROFILE_SYSTEM
        \/ type = "other" /\ templateType \in FEATURE_PROFILE_OTHER
        \/ type = "service" /\ templateType \in FEATURE_PROFILE_SERVICE
        \/ type = "transport" /\ templateType \in FEATURE_PROFILE_TRANSPORT}

\* the categories of device template i whose profile holds the identifier u
CategoriesHolding(i, u) ==
    {type \in CategoryNames :
        \E k \in ProfileOfType(i, type) : u \in ux2.feature_profiles[k].header.subelements}

\* C10: every element of the flattened general-template list of a device
\* template is a subelement of exactly one of the four feature profiles of that
\* device template, the one of the table that holds its resolved type, when a
\* table holds the type, and of none of them when no table holds it; it is
\* never a subelement of two.
C10_OneCategory ==
    \A i \in ProcessedDeviceTemplates : \A k \in DOMAIN flattened[i] :
        LET template == flattened[i][k]
            held == CategoriesHolding(i, UUID(template.templateId))
        IN /\ Cardinality(held) <= 1
           /\ held = TablesOf(template.templateType)

C10_Witness ==
    /\ tpc = "done"
    /\ \E i \in ProcessedDeviceTemplates : \E k, l \in DOMAIN flattened[i] :
          /\ flattened[i][k].templateType = CISCO_VPN_TRANSPORT_AND_MANAGEMENT
          /\ CategoriesHolding(i, UUID(flattened[i][k].templateId)) = {"transport"}
          /\ TablesOf(flattened[i][l].templateType) = {}
          /\ CategoriesHolding(i, UUID(flattened[i][l].templateId)) = {}

\* the origins of the parcels of a UX2Config
ParcelOrigins(u) == {u.profile_parcels[k].header.origin : k \in DOMAIN u.profile_parcels}

\* C11: in every UX2Config that transform returns, the subelements of every
\* feature profile are origins of parcels of that UX2Config: the identifier of a
\* template that was not converted to a parcel is in no profile's subelements.
C11_SubelementsAreParcelOrigins ==
    \A r \in DOMAIN returned : \A k \in DOMAIN returned[r].feature_profiles :
        returned[r].feature_profiles[k].header.subelements \subseteq ParcelOrigins(returned[r])

\* a returned UX2Config whose system profile holds a cisco_snmp template that has no parcel
C11_Witness ==
    \E r \in DOMAIN returned : \E k \in DOMAIN returned[r].feature_profiles :
        \E u \in returned[r].feature_profiles[k].header.subelements :
            /\ u \notin ParcelOrigins(returned[r])
            /\ \E f \in DOMAIN ux1.feature_templates :
                  /\ UUID(ux1.feature_templates[f].id) = u
                  /\ ux1.feature_templates[f].template_type \notin SUPPORTED_TEMPLATE_TYPES

(***************************************************************************)
(* transform called again on the UX1Config it was given before             *)
(***************************************************************************)
\* transform, lines 163-165, on the UX1Config as the previous call left it
transform_again ==
    /\ UNCHANGED <<bvars, pvars, cvars, uvars>>
    /\ tpc = "done"
    /\ Len(returned) < MaxRuns
    /\ ux2' = EmptyUX2
    /\ subtemplates_mapping' = EmptyMapping
    /\ flattened' = <<>>
    /\ tpc' = TransformPosition("device_templates", 1)
    /\ dti' = 1 /\ fti' = 1 /\ pli' = 1
    /\ UNCHANGED <<ux1, ux1_given, nextUuid, log, returned>>

NextTransformTwice ==
    \/ transform_device_template
    \/ \E ok \in BOOLEAN : transform_feature_template(ok)
    \/ \E ok \in BOOLEAN : transform_policy_list(ok)
    \/ transform_return
    \/ transform_again

SpecTransformTwice == InitTransform /\ [][NextTransformTwice]_vars

\* the subelement sets of the feature profiles of a UX2Config, by position
\* (device template and category)
Bucketing(u) == [k \in DOMAIN u.feature_profiles |-> u.feature_profiles[k].header.subelements]

\* C12: two calls of transform on the same UX1Config return feature profiles
\* with the same subelement sets per device template and category.
C12_BucketingIdempotent ==
    \A r, q \in DOMAIN returned : Bucketing(returned[r]) = Bucketing(returned[q])

\* the second call has lost an identifier the first call put in a profile
C12_Witness ==
    /\ Len(returned) = 2
    /\ \E k \in DOMAIN returned[1].feature_profiles :
          \E u \in Bucketing(returned[1])[k] : u \notin Bucketing(returned[2])[k]

\* the parcels of a UX2Config whose origin is the identifier u
ParcelsFrom(u, id) == {k \in DOMAIN u.profile_parcels : u.profile_parcels[k].header.origin = id}

\* a warning that names the identifier was logged
WarnedAbout(id) == \E l \in DOMAIN log : log[l].level = "warning" /\ log[l].id = id

\* in what transform returns, a feature template outside SUPPORTED_TEMPLATE_TYPES
\* has no parcel and a feature template inside it has exactly one
ParcelPerSupportedTemplate ==
    \A r \in DOMAIN returned : \A f \in DOMAIN ux1.feature_templates :
        LET ft == ux1.feature_templates[f]
        IN Cardinality(ParcelsFrom(returned[r], UUID(ft.id))) =
              IF ft.template_type \in SUPPORTED_TEMPLATE_TYPES THEN 1 ELSE 0

\* every feature template outside SUPPORTED_TEMPLATE_TYPES that transform went
\* past has a warning
SkipWarned ==
    \A f \in DOMAIN ux1.feature_templates :
        (tpc \in {"policy_lists", "merge_parcels", "done"} \/ (tpc = "feature_templates" /\ f < fti))
        /\ ux1.feature_templates[f].template_type \notin SUPPORTED_TEMPLATE_TYPES
        => WarnedAbout(UUID(ux1.feature_templates[f].id))

\* C13: a feature template whose type is outside the allow-list yields no
\* parcel, does not make transform fail, and its skip is reported by a warning;
\* a feature template whose type is in the allow-list yields exactly one parcel
\* whose origin is its identifier.
C13_UnsupportedSkipSurfaced == ParcelPerSupportedTemplate /\ SkipWarned

\* transform returned after going past a feature template outside the allow-list
C13_Witness ==
    /\ tpc = "done"
    /\ \E f \in DOMAIN ux1.feature_templates :
          /\ ux1.feature_templates[f].template_type \notin SUPPORTED_TEMPLATE_TYPES
          /\ ParcelsFrom(ux2, UUID(ux1.feature_templates[f].id)) = {}
          /\ ~WarnedAbout(UUID(ux1.feature_templates[f].id))

\* the identifiers of the policy lists of the input, in input order
PolicyListIds == [i \in DOMAIN ux1.policy_lists |-> ux1.policy_lists[i].list_id]

\* the policy lists whose conversion raised PolicyListConversionError
NotConverted == {log[l].id : l \in DOMAIN log}

\* the number of policy lists the loop of lines 270-276 has gone through
PolicyListsDone ==
    IF tpc \in {"merge_parcels", "done"} THEN Len(ux1.policy_lists)
    ELSE IF tpc = "policy_lists" THEN pli - 1
    ELSE 0

IsPolicyListId(id) == \E i \in DOMAIN PolicyListIds : PolicyListIds[i] = id
IsConverted(id) == id \notin NotConverted

\* the origins of the parcels of ux2, in the order of ux2.profile_parcels
Origins == [k \in DOMAIN ux2.profile_parcels |-> ux2.profile_parcels[k].header.origin]

\* C14: a policy list whose conversion raises PolicyListConversionError yields
\* no parcel; every other policy list the loop has gone through, before and
\* after it, has a parcel whose origin is its list id, in input order; and
\* transform does not raise.
C14_PolicyListFailureIsolated ==
    /\ SelectSeq(Origins, IsPolicyListId)
          = SelectSeq(SubSeq(PolicyListIds, 1, PolicyListsDone), IsConverted)
    /\ NotConverted # {} => tpc # "raised"

\* transform returned: the second of three policy lists was not converted, the
\* first and the third were
C14_Witness ==
    /\ tpc = "done"
    /\ Len(ux1.policy_lists) = 3
    /\ NotConverted = {PolicyListIds[2]}
    /\ SelectSeq(Origins, IsPolicyListId) = <<PolicyListIds[1], PolicyListIds[3]>>

\* C15: an error raised by the converter of one feature template does not make
\* transform raise: transform goes on and returns the parcels of the other
\* templates with all feature profiles and config groups.
C15_ConverterErrorScoped == tpc # "raised"

\* a converter raised after the device templates were processed: the call of
\* transform ended with the exception and nothing is returned
C15_Witness ==
    /\ tpc = "raised"
    /\ Len(ux1.device_templates) > 0
    /\ returned = <<>>

\* all templates of a forest, at every level
RECURSIVE TemplatesOf(_)
TemplatesOf(templates) ==
    IF templates = <<>> THEN {}
    ELSE {Head(templates)} \cup TemplatesOf(Head(templates).subTemplates)
            \cup TemplatesOf(Tail(templates))

\* the templates with the identifier `origin` that the i-th device template given
\* to transform lists with sub-templates attached
ListedWithChildren(i, origin) ==
    {t \in TemplatesOf(ux1_given.device_templates[i].general_templates) :
        UUID(t.templateId) = origin /\ t.subTemplates # <<>>}

ChildIds(t) == {UUID(t.subTemplates[k].templateId) : k \in DOMAIN t.subTemplates}

\* the parcels made from feature templates
FeatureTemplateParcels ==
    {k \in DOMAIN ux2.profile_parcels :
        \E f \in DOMAIN ux1_given.feature_templates :
            UUID(ux1_given.feature_templates[f].id) = ux2.profile_parcels[k].header.origin}

\* C28: the header.subelements of a parcel are the identifiers of the
\* sub-templates attached to its source template in the last device template, in
\* the order of the input, that lists the template with sub-templates attached
\* (not those of earlier device templates), and the empty set if no device
\* template lists it with sub-templates.
C28_SubelementsOfLastListing ==
    tpc \in {"feature_templates", "policy_lists", "merge_parcels"} =>
        \A k \in FeatureTemplateParcels :
            LET header == ux2.profile_parcels[k].header
                listing == {i \in DOMAIN ux1_given.device_templates :
                               ListedWithChildren(i, header.origin) # {}}
            IN IF listing = {}
               THEN header.subelements = {}
               ELSE LET last == CHOOSE i \in listing : \A j \in listing : j <= i
                    IN \E t \in ListedWithChildren(last, header.origin) :
                           header.subelements = ChildIds(t)

\* the templates with the identifier `origin` that the flattened list of the
\* i-th device template holds with sub-templates attached: a cisco_vpn at the top
\* of the device template, or a sub-template of a template at the top that is
\* no cisco_vpn
KeptWithChildren(i, origin) ==
    LET top == ux1_given.device_templates[i].general_templates
        kept == {top[k] : k \in {j \in DOMAIN top : top[j].templateType = "cisco_vpn"}}
                   \cup UNION {{top[k].subTemplates[c] : c \in DOMAIN top[k].subTemplates} :
                                   k \in {j \in DOMAIN top : top[j].templateType # "cisco_vpn"}}
    IN {t \in kept : UUID(t.templateId) = origin /\ t.subTemplates # <<>>}

\* C28 (amended): the header.subelements of a parcel are the identifiers of the
\* sub-templates of its source template in the last device template, in the
\* order of the input, whose flattened list holds the template with
\* sub-templates attached (not those of earlier device templates), and the empty
\* set if no device template does.
C28_SubelementsOfLastKept ==
    tpc \in {"feature_templates", "policy_lists", "merge_parcels"} =>
        \A k \in FeatureTemplateParcels :
            LET header == ux2.profile_parcels[k].header
                listing == {i \in DOMAIN ux1_given.device_templates :
                               KeptWithChildren(i, header.origin) # {}}
            IN IF listing = {}
               THEN header.subelements = {}
               ELSE LET last == CHOOSE i \in listing : \A j \in listing : j <= i
                    IN \E t \in KeptWithChildren(last, header.origin) :
                           header.subelements = ChildIds(t)

\* two device templates list the same cisco_vpn, the first with a
\* cisco_vpn_interface and the second with a dhcp, and the parcel of the
\* cisco_vpn has the dhcp alone
C28_Witness ==
    /\ tpc = "merge_parcels"
    /\ Len(ux1_given.device_templates) = 2
    /\ ux1_given.device_templates[1].general_templates
          = <<GeneralTemplate(6, <<GeneralTemplate(3, <<>>)>>)>>
    /\ ux1_given.device_templates[2].general_templates
          = <<GeneralTemplate(6, <<GeneralTemplate(4, <<>>)>>)>>
    /\ \E k \in FeatureTemplateParcels :
          /\ ux2.profile_parcels[k].header.origin = PyUUID(6)
          /\ ux2.profile_parcels[k].header.subelements = {PyUUID(4)}

(***************************************************************************)
(* DeviceTemplateWithInfo.get_flattened_general_templates on its own       *)
(***************************************************************************)
FlattenTypes == {"cisco_vpn", "cisco_system", "cisco_vpn_interface"}

\* node i of a forest, with an identifier of its own
RECURSIVE NumberedTemplateTree(_, _, _)
NumberedTemplateTree(parent, type, i) ==
    LET children == Ascending({j \in DOMAIN parent : parent[j] = i})
    IN [templateId |-> UuidText(i), templateType |-> type[i],
        subTemplates |-> [k \in DOMAIN children |->
                            NumberedTemplateTree(parent, type, children[k])]]

InitFlatten ==
    /\ PusherIdle /\ ConfigPushIdle /\ UtilIdle
    /\ \E n \in 0..MaxFlattenTemplates :
          \E parent \in Forests(n, MaxFlattenDepth), type \in [1..n -> FlattenTypes] :
             LET top == Ascending({j \in 1..n : parent[j] = 0})
                 dt == DeviceTemplateWithInfo(1, [k \in DOMAIN top |->
                                                    NumberedTemplateTree(parent, type, top[k])])
             IN ux1 = UX1Config(<<dt>>, <<>>)
    /\ ux1_given = ux1
    /\ ux2 = EmptyUX2
    /\ subtemplates_mapping = EmptyMapping
    /\ flattened = <<>>
    /\ tpc = "flatten"
    /\ dti = 1 /\ fti = 1 /\ pli = 1
    /\ nextUuid = 0
    /\ log = <<>> /\ returned = <<>>
    /\ profile = "unset" /\ independent_parcels = <<>> /\ translation_profiles = <<>>
    /\ parcels_with_associations = <<>> /\ pushed_associable_parcels = EmptyDict
    /\ build_report = NoReport /\ pc = "idle" /\ idx = 0 /\ part = "none" /\ inflight = FALSE
    /\ nextId = 1 /\ calls = <<>> /\ added_associations = <<>>
    /\ lastOp = [op |-> "__init__", raised |-> "none", args |-> <<>>]

\* dt.get_flattened_general_templates(): the list returned is kept in `flattened`
call_get_flattened_general_templates ==
    /\ UNCHANGED <<bvars, pvars, cvars, uvars>>
    /\ tpc = "flatten"
    /\ flattened' = Append(flattened,
                           get_flattened_general_templates(ux1.device_templates[dti].general_templates))
    /\ ux1' = [ux1 EXCEPT !.device_templates[dti].general_templates = general_templates_flattened(@)]
    /\ tpc' = "flattened"
    /\ UNCHANGED <<ux1_given, ux2, subtemplates_mapping, dti, fti, pli, nextUuid, log, returned>>

NextFlatten == call_get_flattened_general_templates

SpecFlatten == InitFlatten /\ [][NextFlatten]_vars

\* the identifiers of the templates of a list, in order
Ids(templates) == [k \in DOMAIN templates |-> templates[k].templateId]
IdSet(templates) == {templates[k].templateId : k \in DOMAIN templates}

\* the identifiers of all templates of a forest
RECURSIVE TreeIds(_)
TreeIds(templates) ==
    IF templates = <<>> THEN {}
    ELSE {Head(templates).templateId} \cup TreeIds(Head(templates).subTemplates)
            \cup TreeIds(Tail(templates))

\* the identifiers of the templates attached, at any depth, to the cisco_vpn
\* templates of a list
AttachedToVpn(templates) ==
    UNION {TreeIds(templates[k].subTemplates) :
              k \in {j \in DOMAIN templates : templates[j].templateType = "cisco_vpn"}}

\* the lists of siblings of a forest: the top-level list and every subTemplates list
RECURSIVE SiblingLists(_)
SiblingLists(templates) ==
    {templates} \cup UNION {SiblingLists(templates[k].subTemplates) : k \in DOMAIN templates}

\* the elements of seq that are in S, in the order of seq
RECURSIVE Restrict(_, _)
Restrict(seq, S) ==
    IF seq = <<>> THEN <<>>
    ELSE (IF Head(seq) \in S THEN <<Head(seq)>> ELSE <<>>) \o Restrict(Tail(seq), S)

\* C16: get_flattened_general_templates returns every template of the tree
\* exactly once, as an element of the list or attached to a cisco_vpn element of
\* the list; the list keeps the order of the top-level templates and of
\* siblings; the sub-templates of a cisco_vpn element stay attached to it and
\* are not elements of the list.
C16_FlattenComplete ==
    tpc = "flattened" =>
        LET given == ux1_given.device_templates[1].general_templates
            result == flattened[1]
        IN /\ Cardinality(IdSet(result)) = Len(result)
           /\ IdSet(result) \cap AttachedToVpn(result) = {}
           /\ IdSet(result) \cup AttachedToVpn(result) = TreeIds(given)
           /\ \A siblings \in SiblingLists(given) :
                 Restrict(Ids(result), IdSet(siblings)) = Restrict(Ids(siblings), IdSet(result))
           /\ \A k \in DOMAIN result : \A t \in SiblingLists(given) : \A j \in DOMAIN t :
                 result[k].templateType = "cisco_vpn" /\ t[j].templateId = result[k].templateId
                    => result[k].subTemplates = t[j].subTemplates

\* the list returned for a template that is not a cisco_vpn, with a sub-template
\* that has a sub-template of its own
C16_Witness ==
    /\ tpc = "flattened"
    /\ \E k \in DOMAIN flattened[1] :
          /\ flattened[1][k].templateType # "cisco_vpn"
          /\ flattened[1][k].subTemplates # <<>>
          /\ flattened[1][k].templateId \notin IdSet(ux1_given.device_templates[1].general_templates)

(***************************************************************************)
(* ServiceParcelPusher (utils/config_migration/creators/strategy/parcels.py)*)
(***************************************************************************)
InterfaceParcelClasses ==
    {"InterfaceEthernetParcel", "InterfaceGreParcel", "InterfaceIpsecParcel", "InterfaceSviParcel"}

ServiceParcelClasses == {"LanVpnParcel", "SwitchportParcel"} \cup InterfaceParcelClasses

\* parcel._get_parcel_type()
_get_parcel_type(parcel) ==
    CASE parcel.class = "LanVpnParcel" -> "lan/vpn"
      [] parcel.class = "InterfaceEthernetParcel" -> "lan/vpn/interface/ethernet"
      [] parcel.class = "InterfaceGreParcel" -> "lan/vpn/interface/gre"
      [] parcel.class = "InterfaceIpsecParcel" -> "lan/vpn/interface/ipsec"
      [] parcel.class = "InterfaceSviParcel" -> "lan/vpn/interface/svi"
      [] OTHER -> "switchport"

\* the i-th parcel of a list given to push
ServiceParcel(i, class) ==
    LET parcel == [class |-> class, parcel_name |-> <<"parcel", i>>]
    IN TransformedParcel(_get_parcel_type(parcel), PyUUID(i), {}, parcel)

\* the sort key of _move_vpn_parcel_to_first_position
vpn_key(x) == _get_parcel_type(x.parcel) = "lan/vpn"

\* list.sort(key=vpn_key) and list.sort(key=vpn_key, reverse=True), one step of
\* it: x goes behind the elements that sort before it or equal to it
insert_ascending(list, x) ==
    LET before == {k \in DOMAIN list : vpn_key(x) \/ ~vpn_key(list[k])}
        n == Cardinality({k \in DOMAIN list : \A j \in 1..k : j \in before})
    IN SubSeq(list, 1, n) \o <<x>> \o SubSeq(list, n + 1, Len(list))

insert_descending(list, x) ==
    LET before == {k \in DOMAIN list : vpn_key(list[k]) \/ ~vpn_key(x)}
        n == Cardinality({k \in DOMAIN list : \A j \in 1..k : j \in before})
    IN SubSeq(list, 1, n) \o <<x>> \o SubSeq(list, n + 1, Len(list))

\* ServiceParcelPusher._move_vpn_parcel_to_first_position: the list after the sort
RECURSIVE _move_vpn_parcel_to_first_position(_)
_move_vpn_parcel_to_first_position(list) ==
    IF list = <<>> THEN <<>>
    ELSE insert_descending(_move_vpn_parcel_to_first_position(SubSeq(list, 1, Len(list) - 1)),
                           list[Len(list)])

\* the statement of push that runs when the loop is at index i
PushPosition(list, i) == IF i <= Len(list) THEN "loop" ELSE "add_profile_name_and_description"

InitServicePusher ==
    /\ \E n \in 0..MaxServiceParcels : \E class \in [1..n -> ServiceParcelClasses] :
          parcels = [i \in 1..n |-> ServiceParcel(i, class[i])]
    /\ parcels_given = parcels
    /\ builder_calls = <<>>
    /\ ppc = "sort" /\ ppi = 1
    /\ ConfigPushIdle /\ UtilIdle
    /\ ux1 = <<>> /\ ux1_given = <<>> /\ ux2 = <<>> /\ tpc = "idle" /\ subtemplates_mapping = <<>>
    /\ flattened = <<>> /\ dti = 0 /\ fti = 0 /\ pli = 0 /\ nextUuid = 0
    /\ log = <<>> /\ returned = <<>>
    /\ profile = "unset" /\ independent_parcels = <<>> /\ translation_profiles = <<>>
    /\ parcels_with_associations = <<>> /\ pushed_associable_parcels = EmptyDict
    /\ build_report = NoReport /\ pc = "idle" /\ idx = 0 /\ part = "none" /\ inflight = FALSE
    /\ nextId = 1 /\ calls = <<>> /\ added_associations = <<>>
    /\ lastOp = [op |-> "__init__", raised |-> "none", args |-> <<>>]

\* push, line 47
push_move_vpn_parcel_to_first_position ==
    /\ UNCHANGED <<bvars, tvars, cvars, uvars>>
    /\ ppc = "sort"
    /\ parcels' = _move_vpn_parcel_to_first_position(parcels)
    /\ ppc' = PushPosition(parcels, 1)
    /\ UNCHANGED <<parcels_given, builder_calls, ppi>>

\* push, lines 48-49, and _resolve_and_add_parcel
_resolve_and_add_parcel ==
    /\ UNCHANGED <<bvars, tvars, cvars, uvars>>
    /\ ppc = "loop"
    /\ LET parcel == parcels[ppi].parcel
       IN builder_calls' =
             IF parcel.class = "LanVpnParcel"
             THEN Append(builder_calls, [method |-> "add_parcel_vpn", arg |-> parcel])
             ELSE IF parcel.class \in InterfaceParcelClasses
             THEN builder_calls
             ELSE Append(builder_calls, [method |-> "add_parcel", arg |-> parcel])
    /\ ppi' = ppi + 1
    /\ ppc' = PushPosition(parcels, ppi + 1)
    /\ UNCHANGED <<parcels, parcels_given>>

\* push, line 50
push_add_profile_name_and_description ==
    /\ UNCHANGED <<bvars, tvars, cvars, uvars>>
    /\ ppc = "add_profile_name_and_description"
    /\ builder_calls' = Append(builder_calls, [method |-> "add_profile_name_and_description",
                                               arg |-> [class |-> "FeatureProfileCreationPayload",
                                                        parcel_name |-> <<"profile", 0>>]])
    /\ ppc' = "build"
    /\ UNCHANGED <<parcels, parcels_given, ppi>>

\* push, line 51
push_build ==
    /\ UNCHANGED <<bvars, tvars, cvars, uvars>>
    /\ ppc = "build"
    /\ builder_calls' = Append(builder_calls, [method |-> "build",
                                               arg |-> [class |-> "None", parcel_name |-> <<"none", 0>>]])
    /\ ppc' = "returned"
    /\ UNCHANGED <<parcels, parcels_given, ppi>>

NextServicePusher ==
    \/ push_move_vpn_parcel_to_first_position
    \/ _resolve_and_add_parcel
    \/ push_add_profile_name_and_description
    \/ push_build

SpecServicePusher == InitServicePusher /\ [][NextServicePusher]_vars

(***************************************************************************)
(* Properties of ServiceParcelPusher.push                                  *)
(***************************************************************************)
IsVpn(x) == x.header.type = "lan/vpn"
IsNotVpn(x) == ~IsVpn(x)

\* the calls that hand a parcel to the builder
HandOverCalls == {k \in DOMAIN builder_calls : builder_calls[k].method \notin
                     {"add_profile_name_and_description", "build"}}

\* the calls that hand over the parcel
HandOversOf(parcel) == {k \in HandOverCalls : builder_calls[k].arg = parcel}

\* C17: push hands every lan/vpn parcel to the builder before every parcel of
\* another type; the sort keeps the input order among the lan/vpn parcels and
\* among the other parcels, and the list keeps its elements.
C17_VpnFirst ==
    /\ Len(parcels) = Len(parcels_given)
    /\ {parcels[i] : i \in DOMAIN parcels} = {parcels_given[i] : i \in DOMAIN parcels_given}
    /\ ppc # "sort" =>
          /\ SelectSeq(parcels, IsVpn) = SelectSeq(parcels_given, IsVpn)
          /\ SelectSeq(parcels, IsNotVpn) = SelectSeq(parcels_given, IsNotVpn)
          /\ \A i, j \in DOMAIN parcels : IsVpn(parcels[i]) /\ IsNotVpn(parcels[j]) => i < j
    /\ \A k, l \in HandOverCalls :
          /\ _get_parcel_type(builder_calls[k].arg) = "lan/vpn"
          /\ _get_parcel_type(builder_calls[l].arg) # "lan/vpn"
          => k < l
    /\ ppc \in {"add_profile_name_and_description", "build", "returned"} =>
          \A i \in DOMAIN parcels_given :
              IsVpn(parcels_given[i]) => HandOversOf(parcels_given[i].parcel) # {}

\* push returned for a list that had another parcel in front of two lan/vpn parcels
C17_Witness ==
    /\ ppc = "returned"
    /\ Len(parcels_given) = 3
    /\ IsNotVpn(parcels_given[1]) /\ IsVpn(parcels_given[2]) /\ IsVpn(parcels_given[3])
    /\ parcels = <<parcels_given[2], parcels_given[3], parcels_given[1]>>
    /\ HandOversOf(parcels_given[1].parcel) # {}

\* C18: before build is called every parcel of the input was handed to the
\* builder exactly once: a lan/vpn parcel by add_parcel_vpn, an interface parcel
\* as a child of a VPN after a lan/vpn parcel was handed over, any other parcel
\* by add_parcel.
C18_EveryParcelHandedOver ==
    ppc \in {"build", "returned"} =>
        \A i \in DOMAIN parcels_given :
            LET parcel == parcels_given[i].parcel
            IN /\ Cardinality(HandOversOf(parcel)) = 1
               /\ parcel.class \in InterfaceParcelClasses =>
                     \A k \in HandOversOf(parcel) :
                        /\ builder_calls[k].method \notin {"add_parcel_vpn", "add_parcel"}
                        /\ \E v \in 1..(k - 1) : builder_calls[v].method = "add_parcel_vpn"

\* build was called and an interface parcel of the input was not handed to the builder
C18_Witness ==
    /\ ppc = "returned"
    /\ \E i, j \in DOMAIN parcels_given :
          /\ IsVpn(parcels_given[i])
          /\ parcels_given[j].parcel.class \in InterfaceParcelClasses
          /\ HandOversOf(parcels_given[i].parcel) # {}
          /\ HandOversOf(parcels_given[j].parcel) = {}

(***************************************************************************)
(* push_ux2_config and rollback_ux2_config (workflows/config_migration.py) *)
(***************************************************************************)
\* a UX2Config as transform makes it for m device templates without general templates
PushConfig(m) ==
    [feature_profiles |->
        [k \in 1..(4 * m) |->
            LET i == ((k - 1) \div 4) + 1
                j == ((k - 1) % 4) + 1
            IN TransformedFeatureProfile(DeviceTemplateWithInfo(i, <<>>), ProfileTypes[j],
                                         uuid4(k), {})],
     config_groups |->
        [i \in 1..m |->
            TransformedConfigGroup(DeviceTemplateWithInfo(i, <<>>),
                                   [j \in DOMAIN ProfileTypes |-> uuid4(4 * (i - 1) + j)])],
     profile_parcels |-> <<>>]

\* the identifier the target system gives to the n-th entity created
RemoteId(n) == PyUUID(200 + n)

\* UX2ConfigRollback.add_config_group
add_config_group(r, config_group_id) ==
    [r EXCEPT !.config_group_ids = Append(@, config_group_id)]

\* UX2ConfigRollback.add_feature_profile
add_feature_profile_in_front(r, feature_profile_id, profile_type) ==
    [r EXCEPT !.feature_profile_ids = <<<<feature_profile_id, profile_type>>>> \o @]

add_feature_profile(r, feature_profile_id, profile_type) ==
    [r EXCEPT !.feature_profile_ids = Append(@, <<feature_profile_id, profile_type>>)]

\* the feature profile of the UX2Config with the origin
ProfileWithOrigin(origin) ==
    config.feature_profiles[CHOOSE k \in DOMAIN config.feature_profiles :
                               config.feature_profiles[k].header.origin = origin]

\* push_ux2_config, lines 335-337: push returned the record r, which goes to the caller
push_ux2_config_returns(r) == [k |-> "returned", rollback |-> r]

\* push_ux2_config, line 336: push raised; no handler, the exception goes to
\* the caller and line 337 is not reached
push_ux2_config_raises == [k |-> "raised"]

InitPush ==
    /\ \E m \in 0..MaxConfigGroups : config = PushConfig(m)
    /\ target = <<>>
    /\ rollback = [config_group_ids |-> <<>>, feature_profile_ids |-> <<>>]
    /\ profile_ids = EmptyMapping
    /\ cpc = IF config.config_groups = <<>> THEN "pushed" ELSE "push"
    /\ push_result = IF config.config_groups = <<>> THEN push_ux2_config_returns(rollback)
                                                    ELSE [k |-> "pending"]
    /\ cgi = 1 /\ rbi = 0 /\ status = TRUE /\ nextRemoteId = 0
    /\ deletion_failed = FALSE
    /\ PusherIdle /\ UtilIdle
    /\ ux1 = <<>> /\ ux1_given = <<>> /\ ux2 = <<>> /\ tpc = "idle" /\ subtemplates_mapping = <<>>
    /\ flattened = <<>> /\ dti = 0 /\ fti = 0 /\ pli = 0 /\ nextUuid = 0
    /\ log = <<>> /\ returned = <<>>
    /\ profile = "unset" /\ independent_parcels = <<>> /\ translation_profiles = <<>>
    /\ parcels_with_associations = <<>> /\ pushed_associable_parcels = EmptyDict
    /\ build_report = NoReport /\ pc = "idle" /\ idx = 0 /\ part = "none" /\ inflight = FALSE
    /\ nextId = 1 /\ calls = <<>> /\ added_associations = <<>>
    /\ lastOp = [op |-> "__init__", raised |-> "none", args |-> <<>>]

\* UX2ConfigPusher.push: a feature profile of the config group at cgi is created
\* on the target and its identifier is recorded; header.subelements is a set,
\* so the profiles of a config group are created in any order
push_create_feature_profile ==
    /\ UNCHANGED <<bvars, tvars, pvars, uvars>>
    /\ cpc = "push"
    /\ \E origin \in config.config_groups[cgi].header.subelements \ DOMAIN profile_ids :
          LET id == RemoteId(nextRemoteId + 1)
          IN /\ target' = Append(target, [op |-> "create", kind |-> "feature_profile", id |-> id,
                                          origin |-> origin, profiles |-> {}])
             /\ rollback' = add_feature_profile(rollback, id, ProfileWithOrigin(origin).header.type)
             /\ profile_ids' = DictSet(profile_ids, origin, id)
    /\ nextRemoteId' = nextRemoteId + 1
    /\ UNCHANGED <<config, cpc, cgi, rbi, status, deletion_failed, push_result>>

\* UX2ConfigPusher.push: the config group may be created
profiles_not_awaited(config_group) == TRUE

profiles_ready(config_group) == config_group.header.subelements \subseteq DOMAIN profile_ids

\* UX2ConfigPusher.push: the config group at cgi is created on the target with
\* the identifiers of its feature profiles
push_create_config_group ==
    /\ UNCHANGED <<bvars, tvars, pvars, uvars>>
    /\ cpc = "push"
    /\ profiles_ready(config.config_groups[cgi])
    /\ LET config_group == config.config_groups[cgi]
           id == RemoteId(nextRemoteId + 1)
       IN /\ target' = Append(target,
                 [op |-> "create", kind |-> "config_group", id |-> id,
                  origin |-> config_group.header.origin,
                  profiles |-> {profile_ids[o] :
                                   o \in config_group.header.subelements \cap DOMAIN profile_ids}])
          /\ rollback' = add_config_group(rollback, id)
    /\ nextRemoteId' = nextRemoteId + 1
    /\ cgi' = cgi + 1
    /\ cpc' = IF cgi + 1 <= Len(config.config_groups) THEN "push" ELSE "pushed"
    /\ push_result' = IF cgi + 1 <= Len(config.config_groups) THEN push_result
                      ELSE push_ux2_config_returns(rollback')
    /\ UNCHANGED <<config, profile_ids, rbi, status, deletion_failed>>

\* UX2ConfigPusher.push: the progress callback, called after a creation, raises
\* and ends the push; what was created so far stays in the rollback record of
\* the pusher, and push_ux2_config passes the exception on
push_progress_raises ==
    /\ UNCHANGED <<bvars, tvars, pvars, uvars>>
    /\ cpc = "push"
    /\ target # <<>>
    /\ cpc' = "cancelled"
    /\ push_result' = push_ux2_config_raises
    /\ UNCHANGED <<config, target, rollback, profile_ids, cgi, rbi, status, deletion_failed,
                   nextRemoteId>>

\* reversed(list)
RECURSIVE reversed(_)
reversed(list) == IF list = <<>> THEN <<>> ELSE reversed(Tail(list)) \o <<Head(list)>>

\* UX2ConfigReverter.rollback: what is deleted after n deletions were attempted
RollbackPosition(n) ==
    IF n < Len(rollback.config_group_ids) THEN "delete_config_groups"
    ELSE IF n < Len(rollback.config_group_ids) + Len(rollback.feature_profile_ids)
         THEN "delete_feature_profiles"
    ELSE "rolled_back"

\* UX2ConfigReverter.rollback: the result after one more deletion, which
\* succeeded (ok) or failed
rollback_status_of_last(so_far, ok) == ok

rollback_status(so_far, ok) == so_far /\ ok

\* rollback_ux2_config, lines 340-347: called with the record push returned
rollback_ux2_config ==
    /\ UNCHANGED <<bvars, tvars, pvars, uvars>>
    /\ cpc = "pushed"
    /\ push_result = push_ux2_config_returns(rollback)
    /\ cpc' = RollbackPosition(0)
    /\ rbi' = 0
    /\ status' = TRUE
    /\ deletion_failed' = FALSE
    /\ UNCHANGED <<config, target, rollback, profile_ids, cgi, push_result, nextRemoteId>>

\* UX2ConfigReverter.rollback: the next config group is deleted (ok) or its deletion fails
rollback_delete_config_group(ok) ==
    /\ UNCHANGED <<bvars, tvars, pvars, uvars>>
    /\ cpc = "delete_config_groups"
    /\ LET id == reversed(rollback.config_group_ids)[rbi + 1]
       IN target' = Append(target, [op |-> "delete", kind |-> "config_group", id |-> id,
                                    origin |-> id, profiles |-> {}])
    /\ status' = rollback_status(status, ok)
    /\ deletion_failed' = (deletion_failed \/ ~ok)
    /\ rbi' = rbi + 1
    /\ cpc' = RollbackPosition(rbi + 1)
    /\ UNCHANGED <<config, rollback, profile_ids, cgi, push_result, nextRemoteId>>

\* UX2ConfigReverter.rollback: the next feature profile is deleted (ok) or its deletion fails
rollback_delete_feature_profile(ok) ==
    /\ UNCHANGED <<bvars, tvars, pvars, uvars>>
    /\ cpc = "delete_feature_profiles"
    /\ LET id == reversed(rollback.feature_profile_ids)[rbi - Len(rollback.config_group_ids) + 1][1]
       IN target' = Append(target, [op |-> "delete", kind |-> "feature_profile", id |-> id,
                                    origin |-> id, profiles |-> {}])
    /\ status' = rollback_status(status, ok)
    /\ deletion_failed' = (deletion_failed \/ ~ok)
    /\ rbi' = rbi + 1
    /\ cpc' = RollbackPosition(rbi + 1)
    /\ UNCHANGED <<config, rollback, profile_ids, cgi, push_result, nextRemoteId>>

NextPush ==
    \/ push_create_feature_profile
    \/ push_create_config_group
    \/ rollback_ux2_config
    \/ \E ok \in BOOLEAN : rollback_delete_config_group(ok)
    \/ \E ok \in BOOLEAN : rollback_delete_feature_profile(ok)

SpecPush == InitPush /\ [][NextPush]_vars

\* a push that the progress callback may end, up to the call of rollback_ux2_config
\* with the record push_ux2_config returned
NextPushCancelled ==
    \/ push_create_feature_profile
    \/ push_create_config_group
    \/ push_progress_raises
    \/ rollback_ux2_config

SpecPushCancelled == InitPush /\ [][NextPushCancelled]_vars

(***************************************************************************)
(* Properties of push and rollback                                         *)
(***************************************************************************)
Created(kind) == {k \in DOMAIN target : target[k].op = "create" /\ target[k].kind = kind}
Deleted(kind) == {k \in DOMAIN target : target[k].op = "delete" /\ target[k].kind = kind}

\* the config group of the UX2Config with the origin
GroupWithOrigin(origin) ==
    config.config_groups[CHOOSE i \in DOMAIN config.config_groups :
                            config.config_groups[i].header.origin = origin]

\* C19: when a config group is created on the target, every feature profile of
\* its header.subelements was created before and the identifier the target gave
\* it is known and goes into the config group.
C19_ProfilesBeforeGroup ==
    \A k \in Created("config_group") :
        \A origin \in GroupWithOrigin(target[k].origin).header.subelements :
            \E j \in Created("feature_profile") :
                /\ j < k
                /\ target[j].origin = origin
                /\ target[j].id \in target[k].profiles

\* push returned after creating two config groups with four feature profiles each
C19_Witness ==
    /\ cpc = "pushed"
    /\ Cardinality(Created("config_group")) = 2
    /\ Cardinality(Created("feature_profile")) = 8
    /\ \A k \in Created("config_group") : Cardinality(target[k].profiles) = 4

\* the identifiers of the events of `target` at the positions S, in order
RECURSIVE IdsAt(_, _)
IdsAt(S, k) ==
    IF k > Len(target) THEN <<>>
    ELSE (IF k \in S THEN <<target[k].id>> ELSE <<>>) \o IdsAt(S, k + 1)

IsPrefix(a, b) == Len(a) <= Len(b) /\ a = SubSeq(b, 1, Len(a))

\* C20: rollback attempts the deletion of every recorded config group before
\* that of any feature profile, and deletes the config groups and the feature
\* profiles each in the reverse of the order in which add_config_group and
\* add_feature_profile recorded them, which is the order of their creation.
C20_RollbackOrder ==
    /\ rollback.config_group_ids = IdsAt(Created("config_group"), 1)
    /\ [i \in DOMAIN rollback.feature_profile_ids |-> rollback.feature_profile_ids[i][1]]
          = IdsAt(Created("feature_profile"), 1)
    /\ \A i \in Deleted("feature_profile") : \A j \in Deleted("config_group") : j < i
    /\ Deleted("feature_profile") # {}
          => Cardinality(Deleted("config_group")) = Len(rollback.config_group_ids)
    /\ IsPrefix(IdsAt(Deleted("config_group"), 1), reversed(IdsAt(Created("config_group"), 1)))
    /\ IsPrefix(IdsAt(Deleted("feature_profile"), 1), reversed(IdsAt(Created("feature_profile"), 1)))
    /\ cpc = "rolled_back" =>
          /\ Cardinality(Deleted("config_group")) = Cardinality(Created("config_group"))
          /\ Cardinality(Deleted("feature_profile")) = Cardinality(Created("feature_profile"))

\* rollback went through a record of two config groups and eight feature
\* profiles, and a deletion failed on the way
C20_Witness ==
    /\ cpc = "rolled_back"
    /\ Len(rollback.config_group_ids) = 2
    /\ Len(rollback.feature_profile_ids) = 8
    /\ ~status

\* the recorded identifiers, config groups first
RecordedIds ==
    rollback.config_group_ids
        \o [i \in DOMAIN rollback.feature_profile_ids |-> rollback.feature_profile_ids[i][1]]

\* C21: whatever deletions fail, rollback goes on to attempt the deletion of
\* every recorded config group and feature profile (a failed deletion does not
\* end it), and the result it returns is TRUE exactly when no deletion failed.
C21_BestEffortRollback ==
    /\ cpc \in {"delete_config_groups", "delete_feature_profiles"}
          => /\ rbi < Len(RecordedIds)
             /\ Cardinality(Deleted("config_group") \cup Deleted("feature_profile")) = rbi
    /\ cpc = "rolled_back"
          => /\ status = ~deletion_failed
             /\ \A i \in DOMAIN RecordedIds :
                   Cardinality({k \in Deleted("config_group") \cup Deleted("feature_profile") :
                                   target[k].id = RecordedIds[i]}) = 1

\* rollback is going on after a deletion failed and deletions remain
C21_Witness ==
    /\ cpc = "delete_config_groups"
    /\ deletion_failed
    /\ rbi = 1
    /\ Len(rollback.config_group_ids) = 2

\* C22: when the progress callback raises during push, the push ends and the
\* caller of push_ux2_config obtains the record of the config groups and feature
\* profiles created until then, which it can pass to rollback_ux2_config.
C22_PartialRecordObtained ==
    cpc = "cancelled"
       => /\ rollback.config_group_ids = IdsAt(Created("config_group"), 1)
          /\ [i \in DOMAIN rollback.feature_profile_ids |-> rollback.feature_profile_ids[i][1]]
                = IdsAt(Created("feature_profile"), 1)
          /\ push_result = push_ux2_config_returns(rollback)

\* the callback raised after one config group and six feature profiles were
\* created and recorded
C22_Witness ==
    /\ cpc = "cancelled"
    /\ Len(rollback.config_group_ids) = 1
    /\ Len(rollback.feature_profile_ids) = 6
    /\ rollback.config_group_ids = IdsAt(Created("config_group"), 1)

(***************************************************************************)
(* retry (request.py)                                                      *)
(***************************************************************************)
\* no builder is in use and no transform is under way
BuilderIdle ==
    /\ profile = "unset" /\ independent_parcels = <<>> /\ translation_profiles = <<>>
    /\ parcels_with_associations = <<>> /\ pushed_associable_parcels = EmptyDict
    /\ build_report = NoReport /\ pc = "idle" /\ idx = 0 /\ part = "none" /\ inflight = FALSE
    /\ nextId = 1 /\ calls = <<>> /\ added_associations = <<>>
    /\ lastOp = [op |-> "__init__", raised |-> "none", args |-> <<>>]

TransformIdle ==
    /\ ux1 = <<>> /\ ux1_given = <<>> /\ ux2 = <<>> /\ tpc = "idle" /\ subtemplates_mapping = <<>>
    /\ flattened = <<>> /\ dti = 0 /\ fti = 0 /\ pli = 0 /\ nextUuid = 0
    /\ log = <<>> /\ returned = <<>>

\* what an invocation of the wrapped function does: it returns a response or
\* raises an exception
Returns(v) == [k |-> "return", v |-> v]
Raises(e) == [k |-> "raise", v |-> e]
FunctionOutcomes ==
    {Returns(v) : v \in {"response 200", "response 503"}}
        \cup {Raises(e) : e \in {"ConnectionError", "Timeout", "ValueError"}}

\* the tuples `catch` given to retry(); line 27 gives (ConnectionError, Timeout)
CatchTuples == {{"ConnectionError", "Timeout"}, {"Timeout"}}

\* the decorator is called with retries = n
InitRetry ==
    /\ retries \in 0..MaxRetries
    /\ catch \in CatchTuples
    /\ rpc = "loop" /\ loop_i = 0 /\ invocations = <<>> /\ outcome = Pending
    /\ NumListIdle /\ RapportIdle /\ ConverterIdle
    /\ BuilderIdle /\ TransformIdle /\ PusherIdle /\ ConfigPushIdle

\* `for _ in range(retries)`: there is another iteration
range_one_more(i, n) == i <= n

range_has_next(i, n) == i < n

\* lines 16-20: an iteration of the loop invokes the function; its result is
\* returned, an exception of a type in catch is logged and the loop goes on,
\* any other exception leaves the decorator
retry_iteration(o) ==
    /\ UNCHANGED <<bvars, tvars, pvars, cvars, nvars, svars, dvars>>
    /\ rpc = "loop"
    /\ range_has_next(loop_i, retries)
    /\ invocations' = Append(invocations, o)
    /\ IF o.k = "raise" /\ o.v \in catch
       THEN /\ loop_i' = loop_i + 1
            /\ UNCHANGED <<rpc, outcome>>
       ELSE /\ outcome' = o
            /\ rpc' = IF o.k = "return" THEN "returned" ELSE "raised"
            /\ UNCHANGED loop_i
    /\ UNCHANGED <<retries, catch>>

\* line 21: after the loop the function is invoked once more, outside any try
retry_last_invocation(o) ==
    /\ UNCHANGED <<bvars, tvars, pvars, cvars, nvars, svars, dvars>>
    /\ rpc = "loop"
    /\ ~range_has_next(loop_i, retries)
    /\ invocations' = Append(invocations, o)
    /\ outcome' = o
    /\ rpc' = IF o.k = "return" THEN "returned" ELSE "raised"
    /\ UNCHANGED <<retries, catch, loop_i>>

NextRetry ==
    \/ \E o \in FunctionOutcomes : retry_iteration(o)
    \/ \E o \in FunctionOutcomes : retry_last_invocation(o)

SpecRetry == InitRetry /\ [][NextRetry]_vars

\* C24: called with retries = n, the decorator invokes the function at most
\* n + 1 times; every invocation but the last raised an exception of a type in
\* catch; it returns the result of the first invocation that does not raise,
\* raises at once an exception of a type not in catch, and raises whatever the
\* (n + 1)-th invocation raises.
C24_Retry ==
    /\ Len(invocations) <= retries + 1
    /\ \A i \in 1..(Len(invocations) - 1) :
           invocations[i].k = "raise" /\ invocations[i].v \in catch
    /\ rpc = "loop" => (Len(invocations) <= retries /\ outcome = Pending)
    /\ rpc \in {"returned", "raised"} =>
           LET last == invocations[Len(invocations)]
           IN /\ outcome = last
              /\ (rpc = "returned") = (last.k = "return")
              /\ (last.k = "raise" /\ last.v \in catch) => Len(invocations) = retries + 1
    /\ \A i \in DOMAIN invocations :
           (invocations[i].k = "return" \/ invocations[i].v \notin catch \/ i = retries + 1)
               => (i = Len(invocations) /\ outcome = invocations[i])

\* with retries = 3 the fourth invocation raised an exception of a type in catch,
\* which the decorator raised
C24_Witness ==
    /\ retries = 3
    /\ Len(invocations) = 4
    /\ rpc = "raised"
    /\ outcome.v \in catch

(***************************************************************************)
(* as_num_ranges_list, as_num_list (converters/policy/policy_definitions.py)*)
(***************************************************************************)
\* an int and a tuple of two ints
PyInt(n) == [k |-> "int", a |-> n, b |-> 0]
PyTuple(a, b) == [k |-> "tuple", a |-> a, b |-> b]

\* no retry is under way
RetryIdle ==
    /\ retries = 0 /\ catch = {} /\ rpc = "idle" /\ loop_i = 0 /\ invocations = <<>>
    /\ outcome = Pending

DigitChars == <<"0", "1", "2", "3", "4", "5", "6", "7", "8", "9">>

\* str(n) for n >= 0
RECURSIVE str_of_int(_)
str_of_int(n) ==
    IF n < 10 THEN <<DigitChars[n + 1]>>
    ELSE str_of_int(n \div 10) \o <<DigitChars[(n % 10) + 1]>>

\* int(s) for a string of decimal digits
RECURSIVE int(_)
int(s) ==
    IF s = <<>> THEN 0
    ELSE 10 * int(SubSeq(s, 1, Len(s) - 1))
            + ((CHOOSE d \in 1..10 : DigitChars[d] = s[Len(s)]) - 1)

\* the numbers and ranges low-high written in port strings
PortTokens == {PyInt(1), PyInt(20), PyTuple(2, 5), PyTuple(20, 22), PyTuple(7, 7)}

TokenLists(n) == UNION {[1..m -> PortTokens] : m \in 0..n}

\* the text of a token: "1", "2-5"
TokenText(t) ==
    IF t.k = "int" THEN str_of_int(t.a) ELSE str_of_int(t.a) \o <<"-">> \o str_of_int(t.b)

\* the tokens written one after the other, each followed by white space
RECURSIVE PortString(_, _)
PortString(ts, sep) ==
    IF ts = <<>> THEN <<>>
    ELSE TokenText(Head(ts)) \o (IF Tail(ts) = <<>> THEN <<>> ELSE sep) \o PortString(Tail(ts), sep)

\* s.split(sep) for a separator of one character
RECURSIVE split_at(_, _, _)
split_at(s, sep, word) ==
    IF s = <<>> THEN <<word>>
    ELSE IF Head(s) = sep THEN <<word>> \o split_at(Tail(s), sep, <<>>)
    ELSE split_at(Tail(s), sep, Append(word, Head(s)))

\* s.split(): the words between runs of white space
split(s) == SelectSeq(split_at(s, " ", <<>>), LAMBDA word : word # <<>>)

\* int_range_str_validator(val, False): (first, second), second None (PyNone) for a
\* single number
int_range_str_validator(val) ==
    LET int_range == split_at(val, "-", <<>>)
    IN [low |-> PyInt(int(int_range[1])),
        hi |-> IF Len(int_range) = 1 THEN PyNone ELSE PyInt(int(int_range[2]))]

\* as_num_ranges_list, lines 102-115
RECURSIVE as_num_ranges_list_of(_)
as_num_ranges_list_of(words) ==
    IF words = <<>> THEN <<>>
    ELSE LET r == int_range_str_validator(Head(words))
         IN <<IF r.hi = PyNone THEN r.low ELSE PyTuple(r.hi.a, r.low.a)>>
                \o as_num_ranges_list_of(Tail(words))

as_num_ranges_list(s) == as_num_ranges_list_of(split(s))

\* range(a, b) as a set
range(a, b) == {n \in a..(b - 1) : TRUE}

\* as_num_list, lines 118-130
as_num_list(list) ==
    Ascending(UNION {IF list[i].k = "int" THEN {list[i].a} ELSE range(list[i].b, list[i].a + 1) :
                        i \in DOMAIN list})

\* the lists of ints and (low, high) pairs given to as_num_list
PortItems == {PyInt(80), PyInt(31), PyTuple(30, 32), PyTuple(31, 33), PyTuple(31, 31)}

InitNumList ==
    /\ tokens \in TokenLists(MaxTokens)
    /\ \E sep \in {<<" ">>, <<" ", " ">>} : port_str = PortString(tokens, sep)
    /\ ports_list \in UNION {[1..m -> PortItems] : m \in 0..MaxTokens}
    /\ num_list = <<>>
    /\ fpc = "ready"
    /\ RapportIdle /\ ConverterIdle
    /\ RetryIdle /\ BuilderIdle /\ TransformIdle /\ PusherIdle /\ ConfigPushIdle

call_as_num_ranges_list ==
    /\ UNCHANGED <<bvars, tvars, pvars, cvars, rvars, svars, dvars>>
    /\ fpc = "ready"
    /\ num_list' = as_num_ranges_list(port_str)
    /\ fpc' = "as_num_ranges_list"
    /\ UNCHANGED <<tokens, port_str, ports_list>>

call_as_num_list ==
    /\ UNCHANGED <<bvars, tvars, pvars, cvars, rvars, svars, dvars>>
    /\ fpc = "ready"
    /\ num_list' = as_num_list(ports_list)
    /\ fpc' = "as_num_list"
    /\ UNCHANGED <<tokens, port_str, ports_list>>

\* device_access_ipv4, lines 353-354: the ports of a sourcePort entry
call_as_num_list_of_ranges ==
    /\ UNCHANGED <<bvars, tvars, pvars, cvars, rvars, svars, dvars>>
    /\ fpc = "ready"
    /\ num_list' = as_num_list(as_num_ranges_list(port_str))
    /\ fpc' = "as_num_list(as_num_ranges_list)"
    /\ UNCHANGED <<tokens, port_str, ports_list>>

NextNumList ==
    \/ call_as_num_ranges_list
    \/ call_as_num_list
    \/ call_as_num_list_of_ranges

SpecNumList == InitNumList /\ [][NextNumList]_vars

\* C25: as_num_ranges_list gives, token by token and in the order of the
\* string, the int of a single number and the pair (low, high) of a range
\* low-high.
C25_RangesAsLowHigh ==
    fpc = "as_num_ranges_list" => num_list = tokens

\* as_num_ranges_list was given "1 2-5"
C25_Witness ==
    /\ fpc = "as_num_ranges_list"
    /\ tokens = <<PyInt(1), PyTuple(2, 5)>>
    /\ port_str = <<"1", " ", "2", "-", "5">>
    /\ num_list = <<PyInt(1), PyTuple(5, 2)>>

\* the integers a list of ints and (low, high) pairs stands for
NumbersOf(list) ==
    UNION {IF list[i].k = "int" THEN {list[i].a} ELSE list[i].a..list[i].b : i \in DOMAIN list}

\* C26: as_num_list gives the ascending list, without duplicates, of every
\* integer that is an int of the list or lies in low..high of a pair of the list.
C26_AllNumbersAscending ==
    fpc = "as_num_list" => num_list = Ascending(NumbersOf(ports_list))

\* as_num_list was given [(30, 32), 80] and returned [80]
C26_Witness ==
    /\ fpc = "as_num_list"
    /\ ports_list = <<PyTuple(30, 32), PyInt(80)>>
    /\ num_list = <<80>>

(***************************************************************************)
(* UX2ConfigPushRapport.set_success_rate (models/.../config_migration.py)  *)
(***************************************************************************)
\* a FeatureProfileBuildRapport with lists of created and of failed parcels
FeatureProfileBuildRapport(created, failed) ==
    [created_parcels |-> [i \in 1..created |-> "created parcel"],
     failed_parcels |-> [i \in 1..failed |-> "failed parcel"]]

FeatureProfileBuildRapports ==
    {FeatureProfileBuildRapport(0, 0), FeatureProfileBuildRapport(1, 0),
     FeatureProfileBuildRapport(0, 1), FeatureProfileBuildRapport(2, 1)}

\* ConfigGroupRapport: its feature_profiles
ConfigGroupRapports ==
    {[feature_profiles |-> fps] :
        fps \in UNION {[1..n -> FeatureProfileBuildRapports] : n \in 0..MaxRapportProfiles}}

InitRapport ==
    /\ config_groups \in UNION {[1..m -> ConfigGroupRapports] : m \in 0..MaxRapportGroups}
    /\ success_rate_message = <<>>
    /\ spc = "ready"
    /\ NumListIdle /\ ConverterIdle /\ RetryIdle /\ BuilderIdle /\ TransformIdle /\ PusherIdle /\ ConfigPushIdle

\* lines 207-212: the sums over the feature profiles of the config groups
RECURSIVE count_in_profiles(_, _)
count_in_profiles(feature_profiles, which) ==
    IF feature_profiles = <<>> THEN 0
    ELSE Len(Head(feature_profiles)[which]) + count_in_profiles(Tail(feature_profiles), which)

RECURSIVE count_in_groups(_, _)
count_in_groups(groups, which) ==
    IF groups = <<>> THEN 0
    ELSE count_in_profiles(Head(groups).feature_profiles, which)
            + count_in_groups(Tail(groups), which)

\* int((created_parcels / all_parcels) * 100) with all_parcels > 0: the floor of
\* the product of floats, which may lie just below a whole number that the exact
\* quotient reaches
Percentages(created_parcels, all_parcels) ==
    LET exact == (created_parcels * 100) \div all_parcels
    IN IF (created_parcels * 100) % all_parcels = 0
          /\ created_parcels # 0 /\ created_parcels # all_parcels
       THEN {exact, exact - 1}
       ELSE {exact}

\* lines 214-218: the f-string
SuccessRateMessage(created_parcels, all_parcels, percentage) ==
    str_of_int(created_parcels) \o <<"/">> \o str_of_int(all_parcels) \o <<" ", "(">>
        \o str_of_int(percentage) \o <<"%", ")", " which created successfully.">>

\* set_success_rate, lines 206-218
set_success_rate ==
    /\ UNCHANGED <<bvars, tvars, pvars, cvars, rvars, nvars, dvars>>
    /\ spc = "ready"
    /\ LET created_parcels == count_in_groups(config_groups, "created_parcels")
           failed_parcels == count_in_groups(config_groups, "failed_parcels")
           all_parcels == created_parcels + failed_parcels
       IN IF all_parcels = 0
          THEN /\ spc' = "ZeroDivisionError"
               /\ UNCHANGED success_rate_message
          ELSE /\ spc' = "done"
               /\ \E percentage \in Percentages(created_parcels, all_parcels) :
                     success_rate_message' =
                         SuccessRateMessage(created_parcels, all_parcels, percentage)
    /\ UNCHANGED config_groups

NextRapport == set_success_rate

SpecRapport == InitRapport /\ [][NextRapport]_vars

\* the which counted in a rapport
AllFeatureProfiles ==
    {<<i, j>> \in (1..MaxRapportGroups + 1) \X (1..MaxRapportProfiles + 1) :
        i \in DOMAIN config_groups /\ j \in DOMAIN config_groups[i].feature_profiles}

\* the number of which in the lists `which` of the feature profiles S
RECURSIVE ParcelsIn(_, _)
ParcelsIn(S, which) ==
    IF S = {} THEN 0
    ELSE LET ij == CHOOSE x \in S : TRUE
         IN Len(config_groups[ij[1]].feature_profiles[ij[2]][which]) + ParcelsIn(S \ {ij}, which)

\* C27: for every rapport, also one without any created or failed parcel,
\* set_success_rate ends without an error and the message is "created/all (n%)
\* parcels created successfully." with all = created + failed over all feature
\* profiles of all config groups and n a whole number from 0 to 100.
C27_SuccessRateSet ==
    spc # "ready" =>
        /\ spc = "done"
        /\ \E percentage \in 0..100 :
              success_rate_message =
                  SuccessRateMessage(ParcelsIn(AllFeatureProfiles, "created_parcels"),
                                     ParcelsIn(AllFeatureProfiles, "created_parcels")
                                         + ParcelsIn(AllFeatureProfiles, "failed_parcels"),
                                     percentage)

\* set_success_rate was called on a rapport of two config groups whose feature
\* profiles hold no parcel, and raised
C27_Witness ==
    /\ spc = "ZeroDivisionError"
    /\ Len(config_groups) = 2
    /\ \A i \in DOMAIN config_groups : config_groups[i].feature_profiles # <<>>

(***************************************************************************)
(* ipv4acl (converters/policy/policy_definitions.py)                       *)
(***************************************************************************)
\* a value that is no number: a reference, a variable name, a prefix
Ref(n) == [k |-> "ref", a |-> n, b |-> 0]
Variable(n) == [k |-> "variable", a |-> n, b |-> 0]
Prefix(n) == [k |-> "prefix", a |-> n, b |-> 0]
NoValue == [k |-> "none", a |-> 0, b |-> 0]

\* an entry of the match of a sequence of an AclPolicy
AclEntry(field, value, ref, vip_variable_name) ==
    [field |-> field, value |-> value, ref |-> ref, vip_variable_name |-> vip_variable_name]

AclEntries ==
    {AclEntry("destinationDataPrefixList", <<>>, <<Ref(1)>>, NoValue),
     AclEntry("destinationDataPrefixList", <<>>, <<>>, NoValue),
     AclEntry("destinationIp", <<>>, <<>>, Variable(1)),
     AclEntry("destinationIp", <<Prefix(1)>>, <<>>, NoValue),
     AclEntry("destinationPort", PortString(<<PyInt(1), PyTuple(2, 5)>>, <<" ">>), <<>>, NoValue),
     AclEntry("dscp", PortString(<<PyInt(1), PyInt(20)>>, <<" ">>), <<>>, NoValue),
     AclEntry("packetLength", PortString(<<PyTuple(2, 5)>>, <<" ">>), <<>>, NoValue),
     AclEntry("plp", <<>>, <<>>, NoValue),
     AclEntry("protocol", PortString(<<PyInt(1), PyTuple(2, 5)>>, <<" ">>), <<>>, NoValue),
     AclEntry("sourceDataPrefixList", <<>>, <<Ref(2)>>, NoValue),
     AclEntry("sourceIp", <<Prefix(2)>>, <<>>, NoValue),
     AclEntry("sourceIp", <<>>, <<>>, Variable(2)),
     AclEntry("sourcePort", PortString(<<PyTuple(20, 22)>>, <<" ">>), <<>>, NoValue),
     AclEntry("tcp", <<>>, <<>>, NoValue)}

\* an AclPolicy of two sequences; `placed` gives entries and the sequence of each
AclPolicy(placed) ==
    [sequences |->
        [i \in 1..2 |->
            LET own == SelectSeq(placed, LAMBDA e : e[2] = i)
            IN [sequence_id |-> i, sequence_name |-> <<"sequence", i>>, base_action |-> "accept",
                entries |-> [k \in DOMAIN own |-> own[k][1]]]]]

InitAcl ==
    /\ \E n \in 0..MaxAclEntries : \E placed \in [1..n -> AclEntries \X {1, 2}] :
          in_ = AclPolicy(placed)
    /\ out = <<>> /\ protocol = Unbound /\ seq_i = 0
    /\ dpc = "ready"
    /\ NumListIdle /\ RapportIdle /\ RetryIdle
    /\ BuilderIdle /\ TransformIdle /\ PusherIdle /\ ConfigPushIdle

\* a call of a match_* method of the output sequence
Match(name, value) == [match |-> name, value |-> value]

\* convert_varname
convert_varname(name) == [name EXCEPT !.k = "converted variable"]

\* line 237: [int(s) for s in value.split()]
dscp_values(value) == LET words == split(value) IN [k \in DOMAIN words |-> PyInt(int(words[k]))]

\* lines 252-258: the protocols of the numbers and ranges of the value
RECURSIVE protocol_values(_)
protocol_values(words) ==
    IF words = <<>> THEN <<>>
    ELSE LET r == int_range_str_validator(Head(words))
         IN (IF r.hi = PyNone THEN <<r.low>>
             ELSE LET numbers == Ascending(range(r.low.a, r.hi.a + 1))
                  IN [k \in DOMAIN numbers |-> PyInt(numbers[k])])
                \o protocol_values(Tail(words))

\* lines 222-276: the calls of match_* methods that one entry causes
ipv4acl_entry(in_entry) ==
    IF in_entry.field = "destinationDataPrefixList" /\ in_entry.ref # <<>>
    THEN <<Match("destination_data_prefix_list", <<in_entry.ref[1]>>)>>
    ELSE IF in_entry.field = "destinationIp"
    THEN IF in_entry.vip_variable_name # NoValue
         THEN <<Match("destination_data_prefix_variable",
                      <<convert_varname(in_entry.vip_variable_name)>>)>>
         ELSE IF in_entry.value # <<>>
         THEN <<Match("destination_data_prefix", in_entry.value)>>
         ELSE <<>>
    ELSE IF in_entry.field = "destinationPort"
    THEN <<Match("destination_ports", as_num_ranges_list(in_entry.value))>>
    ELSE IF in_entry.field = "dscp"
    THEN <<Match("dscp", dscp_values(in_entry.value))>>
    ELSE IF in_entry.field = "packetLength"
    THEN LET r == int_range_str_validator(in_entry.value)
         IN <<Match("packet_length",
                    <<IF r.hi = PyNone THEN r.low ELSE PyTuple(r.low.a, r.hi.a)>>)>>
    ELSE IF in_entry.field = "plp"
    THEN <<>>
    ELSE IF in_entry.field = "protocol"
    THEN <<Match("protocol", protocol_values(split(in_entry.value)))>>
    ELSE IF in_entry.field = "sourceDataPrefixList" /\ in_entry.ref # <<>>
    THEN <<Match("destination_data_prefix_list", <<in_entry.ref[1]>>)>>
    ELSE IF in_entry.field = "sourceIp"
    THEN IF in_entry.vip_variable_name # NoValue
         THEN <<Match("source_data_prefix_variable",
                      <<convert_varname(in_entry.vip_variable_name)>>)>>
         ELSE IF in_entry.value # <<>>
         THEN <<Match("source_data_prefix", in_entry.value)>>
         ELSE <<>>
    ELSE IF in_entry.field = "sourcePort"
    THEN <<Match("destination_ports", as_num_ranges_list(in_entry.value))>>
    ELSE IF in_entry.field = "tcp"
    THEN <<Match("tcp", <<>>)>>
    ELSE <<>>

\* line 221: the entries of one sequence, in order
RECURSIVE ipv4acl_entries(_)
ipv4acl_entries(entries) ==
    IF entries = <<>> THEN <<>>
    ELSE ipv4acl_entry(Head(entries)) \o ipv4acl_entries(Tail(entries))

\* ipv4acl, lines 216-278
ipv4acl ==
    /\ UNCHANGED <<bvars, tvars, pvars, cvars, rvars, nvars, svars>>
    /\ dpc = "ready"
    /\ out' = [i \in DOMAIN in_.sequences |->
                 [id |-> in_.sequences[i].sequence_id, name |-> in_.sequences[i].sequence_name,
                  base_action |-> in_.sequences[i].base_action,
                  matches |-> ipv4acl_entries(in_.sequences[i].entries)]]
    /\ dpc' = "converted"
    /\ UNCHANGED <<in_, protocol, seq_i>>

NextAcl == ipv4acl

SpecAcl == InitAcl /\ [][NextAcl]_vars

\* what a match_* method matches: the source or the destination of a packet
MatchDirection(name) ==
    IF name \in {"source_ports", "source_data_prefix_list", "source_data_prefix",
                 "source_data_prefix_variable"} THEN "source"
    ELSE IF name \in {"destination_ports", "destination_data_prefix_list",
                      "destination_data_prefix", "destination_data_prefix_variable"}
    THEN "destination"
    ELSE "none"

\* the matches the entries of a sequence stand for, by name
RECURSIVE MatchesFor(_)
MatchesFor(entries) ==
    IF entries = <<>> THEN <<>>
    ELSE LET e == Head(entries)
             name == IF e.field = "sourcePort" THEN <<"source_ports">>
                     ELSE IF e.field = "destinationPort" THEN <<"destination_ports">>
                     ELSE IF e.field = "sourceDataPrefixList"
                     THEN IF e.ref # <<>> THEN <<"source_data_prefix_list">> ELSE <<>>
                     ELSE IF e.field = "destinationDataPrefixList"
                     THEN IF e.ref # <<>> THEN <<"destination_data_prefix_list">> ELSE <<>>
                     ELSE IF e.field = "sourceIp"
                     THEN IF e.vip_variable_name # NoValue THEN <<"source_data_prefix_variable">>
                          ELSE <<"source_data_prefix">>
                     ELSE IF e.field = "destinationIp"
                     THEN IF e.vip_variable_name # NoValue
                          THEN <<"destination_data_prefix_variable">>
                          ELSE <<"destination_data_prefix">>
                     ELSE IF e.field = "packetLength" THEN <<"packet_length">>
                     ELSE IF e.field = "plp" THEN <<>>
                     ELSE <<e.field>>
         IN name \o MatchesFor(Tail(entries))

\* C29: in the parcel of ipv4acl every match of every sequence has the direction
\* of the entry it comes from: a sourcePort entry gives a source-ports match, a
\* sourceDataPrefixList entry a source data-prefix-list match, destination
\* entries give destination matches, and no source entry gives a destination
\* match.
C29_DirectionPreserved ==
    dpc = "converted" =>
        \A i \in DOMAIN in_.sequences :
            LET wanted == MatchesFor(in_.sequences[i].entries)
            IN /\ Len(out[i].matches) = Len(wanted)
               /\ \A k \in DOMAIN wanted :
                     /\ out[i].matches[k].match = wanted[k]
                     /\ MatchDirection(out[i].matches[k].match) = MatchDirection(wanted[k])

\* a sequence with a sourcePort entry and a sourceDataPrefixList entry was
\* converted to a sequence with two destination matches
C29_Witness ==
    /\ dpc = "converted"
    /\ \E i \in DOMAIN in_.sequences :
          /\ Len(in_.sequences[i].entries) = 2
          /\ in_.sequences[i].entries[1].field = "sourcePort"
          /\ in_.sequences[i].entries[2].field = "sourceDataPrefixList"
          /\ out[i].matches[1].match = "destination_ports"
          /\ out[i].matches[2].match = "destination_data_prefix_list"

(***************************************************************************)
(* route (converters/policy/policy_definitions.py)                         *)
(***************************************************************************)
\* the values of sequence_ip_type; PyNone when the sequence has none
SequenceIpTypes == {PyNone, Text("all"), Text("ipv4"), Text("ipv6")}

\* a sequence of a RoutePolicy; with_address: its match has an address entry
RouteSequence(i, sequence_ip_type, with_address) ==
    [sequence_id |-> i, sequence_name |-> <<"sequence", i>>, base_action |-> "accept",
     sequence_ip_type |-> sequence_ip_type,
     entries |-> IF with_address THEN <<[field |-> "address", ref |-> Ref(i)]>> ELSE <<>>]

InitRoute ==
    /\ \E n \in 0..MaxRouteSequences :
          \E chosen \in [1..n -> SequenceIpTypes \X BOOLEAN] :
             in_ = [sequences |-> [i \in 1..n |-> RouteSequence(i, chosen[i][1], chosen[i][2])]]
    /\ out = <<>> /\ protocol = Unbound /\ seq_i = 1
    /\ dpc = "route"
    /\ NumListIdle /\ RapportIdle /\ RetryIdle
    /\ BuilderIdle /\ TransformIdle /\ PusherIdle /\ ConfigPushIdle

\* str.upper for the values of sequence_ip_type
upper(text) ==
    IF text = Text("ipv4") THEN Text("IPV4")
    ELSE IF text = Text("ipv6") THEN Text("IPV6")
    ELSE IF text = Text("all") THEN Text("ALL")
    ELSE text

\* line 364
protocol_of(sequence_ip_type) ==
    IF sequence_ip_type = Text("all") THEN Text("BOTH") ELSE upper(sequence_ip_type)

\* lines 393-397: the match an address entry gives
route_entry(in_entry, sequence_ip_type) ==
    IF in_entry.field = "address"
    THEN IF sequence_ip_type = Text("ipv4") THEN <<Match("ipv4_address", <<in_entry.ref>>)>>
         ELSE IF sequence_ip_type = Text("ipv6") THEN <<Match("ipv6_address", <<in_entry.ref>>)>>
         ELSE <<>>
    ELSE <<>>

RECURSIVE route_entries(_, _)
route_entries(entries, sequence_ip_type) ==
    IF entries = <<>> THEN <<>>
    ELSE route_entry(Head(entries), sequence_ip_type)
            \o route_entries(Tail(entries), sequence_ip_type)

\* lines 361-402: one iteration of `for in_seq in in_.sequences`
route_sequence ==
    /\ UNCHANGED <<bvars, tvars, pvars, cvars, rvars, nvars, svars>>
    /\ dpc = "route"
    /\ seq_i <= Len(in_.sequences)
    /\ LET in_seq == in_.sequences[seq_i]
           sequence_ip_type == in_seq.sequence_ip_type
           assigned == IF sequence_ip_type # PyNone THEN protocol_of(sequence_ip_type)
                       ELSE protocol
       IN IF assigned = Unbound
          THEN \* line 369 reads a local variable that was never assigned
               /\ dpc' = "UnboundLocalError"
               /\ UNCHANGED <<in_, out, protocol, seq_i>>
          ELSE /\ protocol' = assigned
               /\ out' = Append(out, [id |-> in_seq.sequence_id, name |-> in_seq.sequence_name,
                                      base_action |-> in_seq.base_action,
                                      protocol |-> assigned,
                                      matches |-> route_entries(in_seq.entries, sequence_ip_type)])
               /\ seq_i' = seq_i + 1
               /\ UNCHANGED <<in_, dpc>>

\* the loop is over: return out
route_return ==
    /\ UNCHANGED <<bvars, tvars, pvars, cvars, rvars, nvars, svars>>
    /\ dpc = "route"
    /\ seq_i > Len(in_.sequences)
    /\ dpc' = "converted"
    /\ UNCHANGED <<in_, out, protocol, seq_i>>

NextRoute == route_sequence \/ route_return

SpecRoute == InitRoute /\ [][NextRoute]_vars

\* C30: the conversion of a route policy completes for every list of sequences,
\* also when a sequence has no sequence_ip_type, and the protocol of every
\* output sequence is a function of the sequence_ip_type of its own input
\* sequence: BOTH for "all", the upper-cased type otherwise, and the same for
\* any two sequences without a type, whatever sequences were converted before.
C30_ProtocolOfOwnSequence ==
    /\ dpc # "UnboundLocalError"
    /\ \A i \in DOMAIN out :
          LET own == in_.sequences[i].sequence_ip_type
          IN /\ own = Text("all") => out[i].protocol = Text("BOTH")
             /\ own \in {Text("ipv4"), Text("ipv6")} => out[i].protocol = upper(own)
             /\ \A j \in DOMAIN out :
                   in_.sequences[j].sequence_ip_type = own => out[j].protocol = out[i].protocol

\* two sequences without a type were converted after sequences of different
\* types, and each got the protocol of the sequence before it
C30_Witness ==
    /\ dpc = "converted"
    /\ Len(out) = 4
    /\ in_.sequences[1].sequence_ip_type = Text("ipv4")
    /\ in_.sequences[2].sequence_ip_type = PyNone
    /\ in_.sequences[3].sequence_ip_type = Text("all")
    /\ in_.sequences[4].sequence_ip_type = PyNone
    /\ out[2].protocol = Text("IPV4")
    /\ out[4].protocol = Text("BOTH")

====
